---- MODULE Spec2Model ----
(***************************************************************************)
(* A model of java-jar-mcp: the Maven descriptor resolver                  *)
(* (src/src/mavenParser.ts), the archive locator (src/src/jarLocator.ts),  *)
(* the class extractor (src/src/classExtractor.ts) and the tool layer      *)
(* (src/unnamed/part_001).                                                 *)
(*                                                                         *)
(* Strings that may hold ${name} placeholders are sequences of tokens;     *)
(* every other string is a TLA+ string.  Character-level strings (class    *)
(* names, archive entries, descriptors, glob patterns) are sequences of    *)
(* one-character strings.                                                  *)
(***************************************************************************)
EXTENDS Integers, Sequences, FiniteSets, TLC

VARIABLES
    files,      \* the file system: path -> descriptor file, fixed in a run
    cache,      \* MavenParser.cache: cache key -> result array
    pomCache,   \* MavenParser.pomCache: the paths whose parsed project is kept
    parses,     \* number of pomParser.parse invocations so far
    nextId,     \* identity of the next array instance to be allocated
    calls,      \* number of calls of entry points started so far
    req,        \* the parsePom call in flight or last completed
    last,       \* the parsePom call before it, as it ended
    effects,    \* what the entry point in progress has touched so far
    env,        \* the environment of the process, fixed in a run
    jars,       \* the archives on disk: path -> archive, fixed in a run
    tool,       \* the tool handler in flight or last completed
    classDefinitionCache,   \* tools: the cache of class definitions
    dependenciesCache,        \* tools: the cache of dependency lists
    pure,       \* the call of a function without state and its result
    requests,   \* the requests a server is handling concurrently
    manager     \* MCPClientManager of the extension and its server processes

vars == <<files, cache, pomCache, parses, nextId, calls, req, last, effects,
          env, jars, tool, classDefinitionCache, dependenciesCache, pure, requests,
          manager>>

\* what the steps of the resolver leave alone
outside == <<last, effects, env, jars, tool, classDefinitionCache,
             dependenciesCache, pure, requests, manager>>

----------------------------------------------------------------------------
(* Bounds of the model *)

\* calls of entry points (parsePom, tools) in one run
MaxCalls == 2
\* nested resolveProperty / parseParentPom calls before the model reports
\* that the recursion does not end
MaxNesting == 5
\* characters of a generated glob pattern
MaxPatternLen == 2
\* parameters of a generated method descriptor
MaxParams == 2
\* dimensions of a generated array type
MaxArrayDims == 1
\* coordinates of a list handed to findJarForClass
MaxDeps == 3
\* invocations of createClient in one run
MaxCreates == 3

(* Program constants *)
DefaultMaxDepth == 10

----------------------------------------------------------------------------
(* Strings with placeholders *)

\* the element of a one-element set
The(S) == CHOOSE x \in S : TRUE

Lit(s) == IF s = "" THEN <<>> ELSE <<[ref |-> FALSE, s |-> s]>>
Ref(n) == <<[ref |-> TRUE, s |-> n]>>

\* adjacent literal pieces are one piece of text
RECURSIVE Canon(_)
Canon(t) ==
    IF Len(t) < 2 THEN t
    ELSE The({IF ~t[1].ref /\ ~r[1].ref
              THEN <<[ref |-> FALSE, s |-> t[1].s \o r[1].s]>> \o Tail(r)
              ELSE <<t[1]>> \o r
              : r \in {Canon(Tail(t))}})

\* the text of a token sequence
RECURSIVE Str(_)
Str(t) ==
    IF t = <<>> THEN ""
    ELSE (IF t[1].ref THEN "${" \o t[1].s \o "}" ELSE t[1].s) \o Str(Tail(t))

\* value.includes('${')
HasRef(t) == \E i \in 1..Len(t) : t[i].ref

\* String.prototype.replace(match[0], propValue): the first occurrence only
RECURSIVE ReplaceFirst(_, _, _)
ReplaceFirst(t, name, by) ==
    IF t = <<>> THEN <<>>
    ELSE IF t[1].ref /\ t[1].s = name THEN by \o Tail(t)
    ELSE <<t[1]>> \o ReplaceFirst(Tail(t), name, by)

\* String.prototype.toLowerCase on the property names of the model
ToLowerCase(n) ==
    CASE n = "V" -> "v"
      [] n = "W" -> "w"
      [] OTHER -> n

----------------------------------------------------------------------------
(* Descriptors.  A parsed project is a record                              *)
(*   groupId, artifactId, version : text ("" when absent)                  *)
(*   parent     : [present, groupId, artifactId, version, relativePath]    *)
(*   properties : sequence of [name, value]                                *)
(*   depMgmt    : the declarations of the dependencyManagement section     *)
(*   deps       : the declarations of the dependencies section             *)
(* A declaration is [groupId, artifactId, version : tokens, scope,         *)
(* optional, classifier : text, exclusions : sequence of [groupId,         *)
(* artifactId]].                                                           *)

NoParent ==
    [present |-> FALSE, groupId |-> "", artifactId |-> "", version |-> "",
     relativePath |-> ""]

\* a context that was not resolved (parentContext undefined)
NoContext ==
    [present |-> FALSE, properties |-> <<>>, dependencyManagement |-> <<>>]

\* Map.get, undefined read as the empty text
MapGet(m, k) == IF k \in DOMAIN m THEN m[k] ELSE <<>>

\* properties[propName] on the parsed properties object
PropsGet(props, n) ==
    IF \E i \in 1..Len(props) : props[i].name = n
    THEN props[CHOOSE i \in 1..Len(props) : props[i].name = n].value
    ELSE <<>>

\* the value a placeholder name stands for; the empty text when none
PropValue(propName, project, context) ==
    CASE propName \in {"project.version", "pom.version"} ->
            Lit(project.version)
      [] propName \in {"project.groupId", "pom.groupId"} ->
            Lit(project.groupId)
      [] propName \in {"project.artifactId", "pom.artifactId"} ->
            Lit(project.artifactId)
      [] propName \in {"project.parent.version", "pom.parent.version"} ->
            Lit(project.parent.version)
      [] propName \in {"project.parent.groupId", "pom.parent.groupId"} ->
            Lit(project.parent.groupId)
      [] propName \in {"project.parent.artifactId", "pom.parent.artifactId"} ->
            Lit(project.parent.artifactId)
      [] OTHER ->
            The({IF own = <<>> /\ context.present
                 THEN MapGet(context.properties, propName)
                 ELSE own
                 : own \in {IF PropsGet(project.properties, propName) # <<>>
                            THEN PropsGet(project.properties, propName)
                            ELSE PropsGet(project.properties,
                                          ToLowerCase(propName))}})

\* the while loop over the matches of the original value
RECURSIVE SubstMatches(_, _, _, _)
SubstMatches(matches, result, project, context) ==
    IF matches = <<>> THEN result
    ELSE The({SubstMatches(Tail(matches),
                           IF propValue # <<>>
                           THEN ReplaceFirst(result, matches[1].s, propValue)
                           ELSE result,
                           project, context)
              : propValue \in {PropValue(matches[1].s, project, context)}})

\* the result after n more nested calls; thrown when the recursion has not
\* ended by then (the call stack overflows)
RECURSIVE ResolvePropertyN(_, _, _, _)
ResolvePropertyN(value, project, context, n) ==
    IF value = <<>> THEN [thrown |-> FALSE, val |-> <<>>]
    ELSE IF ~HasRef(value) THEN [thrown |-> FALSE, val |-> value]
    ELSE The({IF HasRef(result) /\ result # value
              THEN IF n = 0 THEN [thrown |-> TRUE, val |-> <<>>]
                   ELSE ResolvePropertyN(result, project, context, n - 1)
              ELSE [thrown |-> FALSE, val |-> result]
              : result \in {Canon(SubstMatches(
                                SelectSeq(value, LAMBDA t : t.ref),
                                value, project, context))}})

ResolveProperty(value, project, context) ==
    ResolvePropertyN(Canon(value), project, context, MaxNesting)

\* the key of a coordinate identity, `${groupId}:${artifactId}`
Key(groupId, artifactId) == groupId \o ":" \o artifactId

\* groupId, artifactId and version of a declaration after placeholder
\* substitution and the dependencyManagement lookup
ResolveDecl(dep, project, context) ==
    The({[thrown |-> g.thrown \/ a.thrown \/ v.thrown,
          groupId |-> Str(g.val), artifactId |-> Str(a.val),
          version |->
              IF /\ Key(Str(g.val), Str(a.val))
                        \in DOMAIN context.dependencyManagement
                 /\ Str(v.val) = ""
                 /\ context.dependencyManagement[
                        Key(Str(g.val), Str(a.val))].version # ""
              THEN context.dependencyManagement[
                       Key(Str(g.val), Str(a.val))].version
              ELSE Str(v.val)]
         : g \in {ResolveProperty(dep.groupId, project, context)},
           a \in {ResolveProperty(dep.artifactId, project, context)},
           v \in {ResolveProperty(dep.version, project, context)}})

\* the exclusions of a declaration, an absent part read as the wildcard
DeclExclusions(dep) ==
    [i \in 1..Len(dep.exclusions) |->
        [groupId |-> IF dep.exclusions[i].groupId = "" THEN "*"
                     ELSE dep.exclusions[i].groupId,
         artifactId |-> IF dep.exclusions[i].artifactId = "" THEN "*"
                        ELSE dep.exclusions[i].artifactId]]

MergeMaps(over, under) ==
    [k \in DOMAIN over \cup DOMAIN under |->
        IF k \in DOMAIN over THEN over[k] ELSE under[k]]

\* the own properties of a project layered, in order, over a table
RECURSIVE LayerProperties(_, _, _, _)
LayerProperties(props, table, project, parentContext) ==
    IF props = <<>> THEN [thrown |-> FALSE, map |-> table]
    ELSE The({The({[thrown |-> r.thrown \/ rest.thrown, map |-> rest.map]
                   : rest \in {LayerProperties(Tail(props),
                                   MergeMaps([k \in {props[1].name} |-> r.val],
                                             table),
                                   project, parentContext)}})
              : r \in {ResolveProperty(props[1].value, project,
                                       parentContext)}})

ExtractProperties(project, parentContext) ==
    LayerProperties(project.properties,
                    IF parentContext.present THEN parentContext.properties
                    ELSE <<>>,
                    project, parentContext)

RECURSIVE LayerManagement(_, _, _, _)
LayerManagement(decls, table, project, parentContext) ==
    IF decls = <<>> THEN [thrown |-> FALSE, map |-> table]
    ELSE The({The({[thrown |-> g.thrown \/ a.thrown \/ v.thrown
                                \/ rest.thrown,
                    map |-> rest.map]
                   : rest \in {LayerManagement(Tail(decls),
                        IF Str(g.val) # "" /\ Str(a.val) # ""
                        THEN MergeMaps(
                                [k \in {Key(Str(g.val), Str(a.val))} |->
                                    [groupId |-> Str(g.val),
                                     artifactId |-> Str(a.val),
                                     version |-> Str(v.val),
                                     scope |-> decls[1].scope]],
                                table)
                        ELSE table,
                        project, parentContext)}})
              : g \in {ResolveProperty(decls[1].groupId, project,
                                       parentContext)},
                a \in {ResolveProperty(decls[1].artifactId, project,
                                       parentContext)},
                v \in {ResolveProperty(decls[1].version, project,
                                       parentContext)}})

ExtractDependencyManagement(project, parentContext) ==
    LayerManagement(project.depMgmt,
                    IF parentContext.present
                    THEN parentContext.dependencyManagement ELSE <<>>,
                    project, parentContext)

----------------------------------------------------------------------------
(* The file system and the local repository *)

\* path.join(os.homedir(), '.m2', 'repository')
HomeRepository == "/home/u/.m2/repository"

\* MavenParser.mavenRepoPath, the parser being constructed without argument
MavenRepoPath ==
    IF env.MAVEN_REPO_PATH # "" THEN env.MAVEN_REPO_PATH ELSE HomeRepository

\* groupId.replace(/\./g, '/') on the group identifiers of the model
GroupPath(groupId) ==
    CASE groupId = "o.x" -> "o/x"
      [] OTHER -> groupId

\* repository path of the descriptor of a coordinate
RepoPomPath(groupId, artifactId, version) ==
    MavenRepoPath \o "/" \o GroupPath(groupId) \o "/" \o artifactId \o "/"
        \o version \o "/" \o artifactId \o "-" \o version \o ".pom"

Exists(path) == path \in DOMAIN files

\* "" stands for null
LocatePomInRepository(groupId, artifactId, version) ==
    IF groupId = "" \/ artifactId = "" \/ version = "" THEN ""
    ELSE IF Exists(RepoPomPath(groupId, artifactId, version))
         THEN RepoPomPath(groupId, artifactId, version)
         ELSE ""

\* pomParser.parse succeeds on the file
Parsable(path) == Exists(path) /\ files[path].ok

\* path.resolve(path.dirname(currentPomPath), relativePath) on the paths
\* of the model
RelativePomPath(currentPomPath, relativePath) ==
    CASE currentPomPath = "/w/app/pom.xml" /\ relativePath = "../pom.xml" ->
            "/w/pom.xml"
      [] currentPomPath = "/w/app/pom.xml" /\ relativePath = "../base/pom.xml" ->
            "/w/base/pom.xml"
      [] OTHER -> currentPomPath \o "/../" \o relativePath

\* where parseParentPom looks for the parent descriptor; "" when nowhere
ParentPomPath(parent, currentPomPath) ==
    The({IF relativePath # "../pom.xml"
            /\ Exists(RelativePomPath(currentPomPath, relativePath))
         THEN RelativePomPath(currentPomPath, relativePath)
         ELSE LocatePomInRepository(parent.groupId, parent.artifactId,
                                    parent.version)
         : relativePath \in {IF parent.relativePath = "" THEN "../pom.xml"
                             ELSE parent.relativePath}})

NoParentContext == [st |-> "ok", ctx |-> NoContext, reads |-> <<>>]

\* the context built for a parent project over the context of its own
\* parent chain
ParentContext(parentProject, parentPomPath, grand) ==
    IF grand.st # "ok"
    THEN [grand EXCEPT !.reads = <<parentPomPath>> \o grand.reads]
    ELSE The({[st |-> IF props.thrown \/ mgmt.thrown THEN "throw" ELSE "ok",
               ctx |-> [present |-> TRUE, properties |-> props.map,
                        dependencyManagement |-> mgmt.map],
               reads |-> <<parentPomPath>> \o grand.reads]
              : props \in {ExtractProperties(parentProject, grand.ctx)},
                mgmt \in {ExtractDependencyManagement(parentProject,
                                                      grand.ctx)}})

RECURSIVE ParseParentPomN(_, _, _)
ParseParentPomN(project, currentPomPath, n) ==
    IF ~project.parent.present THEN NoParentContext
    ELSE IF project.parent.groupId = "" \/ project.parent.artifactId = ""
            \/ project.parent.version = "" THEN NoParentContext
    ELSE The({
        IF parentPomPath = "" THEN NoParentContext
        ELSE IF ~Parsable(parentPomPath)
             THEN [NoParentContext EXCEPT !.reads = <<parentPomPath>>]
        ELSE IF n = 0
             THEN [st |-> "hang", ctx |-> NoContext,
                   reads |-> <<parentPomPath>>]
        ELSE The({ParentContext(files[parentPomPath].project, parentPomPath,
                                grand)
                  : grand \in {ParseParentPomN(files[parentPomPath].project,
                                               parentPomPath, n - 1)}})
        : parentPomPath \in {ParentPomPath(project.parent, currentPomPath)}})

\* the context of the parent chain of a project: st is "ok" (ctx.present
\* tells whether a context was built), "throw" or, when the chain has not
\* ended after MaxNesting nested calls, "hang"; reads lists the paths handed
\* to parsePomFile, in order
ParseParentPom(project, currentPomPath) ==
    ParseParentPomN(project, currentPomPath, MaxNesting)

----------------------------------------------------------------------------
(* Coordinates: [groupId, artifactId, version, scope, optional,            *)
(* classifier, exclusions, depth]                                          *)

NoCoordinate ==
    [groupId |-> "", artifactId |-> "", version |-> "", scope |-> "",
     optional |-> "", classifier |-> "", exclusions |-> <<>>, depth |-> 0]

DepKey(dep) == Key(dep.groupId, dep.artifactId)

IsExcluded(dep, exclusions) ==
    \E i \in 1..Len(exclusions) :
        /\ exclusions[i].groupId = "*" \/ exclusions[i].groupId = dep.groupId
        /\ exclusions[i].artifactId = "*"
              \/ exclusions[i].artifactId = dep.artifactId

\* the coordinates declared by a project: for the descriptor passed to
\* parsePom (transitive = FALSE) every complete declaration, at depth 0 with
\* its own exclusions; for the descriptor of a dependency the declarations
\* not excluded by the exclusions merged along the path
\* a coordinate carries the exclusions of its own declaration only
CoordinateOwnExclusions(dep, r, exclusions, depth) ==
    [groupId |-> r.groupId, artifactId |-> r.artifactId,
     version |-> r.version,
     scope |-> IF dep.scope = "" THEN "compile" ELSE dep.scope,
     optional |-> dep.optional, classifier |-> dep.classifier,
     exclusions |-> DeclExclusions(dep), depth |-> depth]

Coordinate(dep, r, exclusions, depth) ==
    [groupId |-> r.groupId, artifactId |-> r.artifactId,
     version |-> r.version,
     scope |-> IF dep.scope = "" THEN "compile" ELSE dep.scope,
     optional |-> dep.optional, classifier |-> dep.classifier,
     exclusions |-> exclusions, depth |-> depth]

RECURSIVE DeclaredDependencies(_, _, _, _, _, _)
DeclaredDependencies(decls, project, context, transitive, depth, parentExclusions) ==
    IF decls = <<>> THEN [thrown |-> FALSE, deps |-> <<>>]
    ELSE The({
        [thrown |-> r.thrown \/ rest.thrown,
         deps |->
            (IF /\ r.groupId # "" /\ r.artifactId # "" /\ r.version # ""
                /\ transitive => ~IsExcluded(r, exclusions)
             THEN <<Coordinate(decls[1], r, exclusions, depth)>>
             ELSE <<>>) \o rest.deps]
        : r \in {ResolveDecl(decls[1], project, context)},
          exclusions \in {IF transitive
                          THEN parentExclusions \o DeclExclusions(decls[1])
                          ELSE DeclExclusions(decls[1])},
          rest \in {DeclaredDependencies(Tail(decls), project, context,
                                         transitive, depth, parentExclusions)}})

\* locatePomInRepository(dependency)
DepPomPath(dependency) ==
    LocatePomInRepository(dependency.groupId, dependency.artifactId,
                          dependency.version)

\* no identity is ever found in the visited set
VisitedHasNothing(visited, dependency) == FALSE

\* visited.has(key)
VisitedHas(visited, dependency) == DepKey(dependency) \in visited

\* the guards of resolveTransitiveDependencies that return [] before any
\* descriptor is read
Guarded(dependency, visited, depth, maxDepth, parentExclusions) ==
    \/ depth >= maxDepth
    \/ VisitedHas(visited, dependency)
    \/ dependency.optional # ""
    \/ IsExcluded(dependency, parentExclusions)
    \/ DepPomPath(dependency) = ""

\* the rejection of parsePomFile is not caught
ReturnsEmptyAtGuards(dependency, visited, depth, maxDepth, parentExclusions) ==
    Guarded(dependency, visited, depth, maxDepth, parentExclusions)

\* resolveTransitiveDependencies returns [] at once
ReturnsEmpty(dependency, visited, depth, maxDepth, parentExclusions) ==
    \/ Guarded(dependency, visited, depth, maxDepth, parentExclusions)
    \/ ~Parsable(DepPomPath(dependency))

\* the body of resolveTransitiveDependencies up to its loop over the
\* collected declarations: the merged context and transitiveDeps
Expand(dependency, context, depth, parentExclusions) ==
    The({The({The({
        [st |-> IF ~Parsable(DepPomPath(dependency)) THEN "throw"
                ELSE IF depParent.st # "ok" THEN depParent.st
                ELSE IF declared.thrown THEN "throw" ELSE "ok",
         context |-> mergedContext,
         transitiveDeps |-> declared.deps,
         reads |-> depParent.reads]
        : declared \in {DeclaredDependencies(
                            files[DepPomPath(dependency)].project.deps,
                            files[DepPomPath(dependency)].project,
                            mergedContext, TRUE, depth + 1,
                            parentExclusions)}})
        : mergedContext \in
            {[present |-> TRUE,
              properties |->
                 MergeMaps(depParent.ctx.properties, context.properties),
              dependencyManagement |->
                 MergeMaps(depParent.ctx.dependencyManagement,
                           context.dependencyManagement)]}})
        : depParent \in {ParseParentPom(files[DepPomPath(dependency)].project,
                                        DepPomPath(dependency))}})

\* resolveVersionConflict: a Map keyed by identity, in insertion order
RECURSIVE Mediate(_, _)
Mediate(dependencies, kept) ==
    IF dependencies = <<>> THEN kept
    ELSE The({The({
        Mediate(rest, next)
        : rest \in {Tail(dependencies)},
          next \in {IF same = {} THEN Append(kept, dependencies[1])
                    ELSE IF dependencies[1].depth < kept[The(same)].depth
                    THEN [kept EXCEPT ![The(same)] = dependencies[1]]
                    ELSE kept}})
        : same \in {{i \in 1..Len(kept) :
                        DepKey(kept[i]) = DepKey(dependencies[1])}}})

\* every occurrence kept
ResolveVersionConflictKeepsAll(dependencies) == dependencies

\* on a tie of depth the later occurrence kept
RECURSIVE MediateLastWins(_, _)
MediateLastWins(dependencies, kept) ==
    IF dependencies = <<>> THEN kept
    ELSE The({The({
        MediateLastWins(rest, next)
        : rest \in {Tail(dependencies)},
          next \in {IF same = {} THEN Append(kept, dependencies[1])
                    ELSE IF dependencies[1].depth <= kept[The(same)].depth
                    THEN [kept EXCEPT ![The(same)] = dependencies[1]]
                    ELSE kept}})
        : same \in {{i \in 1..Len(kept) :
                        DepKey(kept[i]) = DepKey(dependencies[1])}}})

ResolveVersionConflictLastWins(dependencies) ==
    MediateLastWins(dependencies, <<>>)

ResolveVersionConflict(dependencies) == Mediate(dependencies, <<>>)

Includes(list, x) == \E i \in 1..Len(list) : list[i] = x

\* no coordinate is filtered out
FilterByScopeKeepsAll(dependencies, scopes) == dependencies

FilterByScope(dependencies, scopes) ==
    SelectSeq(dependencies,
              LAMBDA dep : Includes(scopes, IF dep.scope = "" THEN "compile"
                                            ELSE dep.scope))

----------------------------------------------------------------------------
(* parsePom *)

\* path.resolve(pomPath), the working directory being /w/app
PathResolve(pomPath) ==
    CASE pomPath = "pom.xml" -> "/w/app/pom.xml"
      [] OTHER -> pomPath

\* ParseOptions as passed: each member is given or not
NoOptions ==
    [hasTransitive |-> FALSE, includeTransitive |-> TRUE,
     hasScopes |-> FALSE, scopes |-> <<>>,
     hasMaxDepth |-> FALSE, maxDepth |-> 0]

DefaultScopes == <<"compile", "runtime">>

\* const opts: ParseOptions = {...}
EffectiveOptions(options) ==
    [includeTransitive |->
        ~(options.hasTransitive /\ options.includeTransitive = FALSE),
     scopes |-> IF options.hasScopes THEN options.scopes ELSE DefaultScopes,
     maxDepth |-> IF options.hasMaxDepth /\ options.maxDepth # 0
                  THEN options.maxDepth ELSE DefaultMaxDepth]

\* the options in the key as they were passed
CacheKeyOfPassedOptions(pomPath, options) ==
    [path |-> PathResolve(pomPath), opts |-> options]

\* `${actualPomPath}:${JSON.stringify(opts)}`
CacheKey(pomPath, options) ==
    [path |-> PathResolve(pomPath), opts |-> EffectiveOptions(options)]

NoResult == [id |-> 0, items |-> <<>>]

Idle ==
    [pc |-> "idle", pomPath |-> "", options |-> NoOptions,
     context |-> NoContext, direct |-> <<>>, stack |-> <<>>, visited |-> {},
     collected |-> <<>>, result |-> NoResult, error |-> ""]

\* a call as it ended, kept when the next call starts
NoSummary ==
    [pc |-> "idle", pomPath |-> "", options |-> NoOptions,
     result |-> NoResult, parses |-> 0, pomCache |-> {}]

Summary ==
    [pc |-> req.pc, pomPath |-> req.pomPath, options |-> req.options,
     result |-> req.result, parses |-> parses, pomCache |-> pomCache]

\* what the entry point by has read or written since it was called
Touched(by, what) == [by |-> by, touched |-> what]

\* the effect on pomCache and on the number of parses of handing the paths
\* to parsePomFile, in order
RECURSIVE AfterReads(_, _, _)
AfterReads(reads, cached, count) ==
    IF reads = <<>> THEN [pomCache |-> cached, parses |-> count]
    ELSE IF reads[1] \in cached THEN AfterReads(Tail(reads), cached, count)
    ELSE The({AfterReads(rest, kept, n)
              : rest \in {Tail(reads)},
                kept \in {IF Parsable(reads[1]) THEN cached \cup {reads[1]}
                          ELSE cached},
                n \in {count + 1}})

Read(reads) ==
    \E after \in {AfterReads(reads, pomCache, parses)} :
        /\ pomCache' = after.pomCache
        /\ parses' = after.parses

\* the list is stored as soon as the direct dependencies are known
CompletedDirect(r, allDependencies) ==
    \E filtered \in {FilterByScope(ResolveVersionConflict(allDependencies),
                                   EffectiveOptions(r.options).scopes)} :
        /\ req' = [r EXCEPT !.pc = "returned", !.stack = <<>>,
                            !.collected = allDependencies,
                            !.result = [id |-> nextId, items |-> filtered]]
        /\ cache' = MergeMaps(
               [k \in {CacheKey(r.pomPath, r.options)} |->
                   [id |-> nextId,
                    items |-> FilterByScope(ResolveVersionConflict(r.direct),
                                  EffectiveOptions(r.options).scopes)]],
               cache)
        /\ nextId' = nextId + 1

\* steps 6 and 7 and the cache write
Completed(r, allDependencies) ==
    \E filtered \in {FilterByScope(ResolveVersionConflict(allDependencies),
                                   EffectiveOptions(r.options).scopes)} :
        /\ req' = [r EXCEPT !.pc = "returned", !.stack = <<>>,
                            !.collected = allDependencies,
                            !.result = [id |-> nextId, items |-> filtered]]
        /\ cache' = MergeMaps(
               [k \in {CacheKey(r.pomPath, r.options)} |->
                   [id |-> nextId, items |-> filtered]], cache)
        /\ nextId' = nextId + 1

Failed(r, path) ==
    req' = [r EXCEPT !.pc = "thrown", !.stack = <<>>,
                     !.error = "Failed to parse pom.xml at " \o path]

\* pomPath is never found missing
MissingNever(pomPath) == FALSE

\* !pomPath: the argument is absent or empty
Missing(pomPath) == pomPath = ""

\* a call may start when no call is in flight
CanCall == req.pc \in {"idle", "returned", "thrown"} /\ calls < MaxCalls

Called(pomPath, options) ==
    [Idle EXCEPT !.pomPath = pomPath, !.options = options]

\* parsePom without a path
ParsePomNoPath(pomPath, options) ==
    /\ CanCall
    /\ Missing(pomPath)
    /\ req' = [Called(pomPath, options) EXCEPT
                  !.pc = "thrown", !.error = "pomPath is required"]
    /\ calls' = calls + 1
    /\ UNCHANGED <<files, cache, pomCache, parses, nextId>>

\* parsePom answered from the cache
ParsePomCached(pomPath, options) ==
    /\ CanCall
    /\ ~Missing(pomPath)
    /\ CacheKey(pomPath, options) \in DOMAIN cache
    /\ req' = [Called(pomPath, options) EXCEPT
                  !.pc = "returned",
                  !.result = cache[CacheKey(pomPath, options)]]
    /\ calls' = calls + 1
    /\ UNCHANGED <<files, cache, pomCache, parses, nextId>>

\* steps 3 and 4 of parsePom: the context of the project and its direct
\* dependencies
FirstSteps(r, project, parentContext) ==
    The({The({
        [st |-> IF parentContext.st = "hang" THEN "hang"
                ELSE IF \/ parentContext.st = "throw"
                        \/ properties.thrown \/ management.thrown
                        \/ declared.thrown
                THEN "throw" ELSE "ok",
         req |-> [r EXCEPT
                     !.context = [present |-> TRUE,
                                  properties |-> properties.map,
                                  dependencyManagement |-> management.map],
                     !.direct = declared.deps]]
        : declared \in {DeclaredDependencies(project.deps, project,
                            [present |-> TRUE, properties |-> properties.map,
                             dependencyManagement |-> management.map],
                            FALSE, 0, <<>>)}})
        : properties \in {ExtractProperties(project, parentContext.ctx)},
          management \in {ExtractDependencyManagement(project,
                                                      parentContext.ctx)}})

\* parsePom, steps 1 to 4, then either the start of the transitive
\* resolution or, without it, steps 6 and 7
ParsePomStart(pomPath, options) ==
    /\ CanCall
    /\ ~Missing(pomPath)
    /\ CacheKey(pomPath, options) \notin DOMAIN cache
    /\ calls' = calls + 1
    /\ UNCHANGED files
    /\ IF ~Parsable(PathResolve(pomPath))
       THEN /\ Failed(Called(pomPath, options), PathResolve(pomPath))
            /\ Read(<<PathResolve(pomPath)>>)
            /\ UNCHANGED <<cache, nextId>>
       ELSE \E parentContext \in
                {ParseParentPom(files[PathResolve(pomPath)].project,
                                PathResolve(pomPath))} :
            \E first \in {FirstSteps(Called(pomPath, options),
                                     files[PathResolve(pomPath)].project,
                                     parentContext)} :
               /\ Read(<<PathResolve(pomPath)>> \o parentContext.reads)
               /\ IF first.st = "hang"
                  THEN /\ req' = [first.req EXCEPT !.pc = "hung"]
                       /\ UNCHANGED <<cache, nextId>>
                  ELSE IF first.st = "throw"
                  THEN /\ Failed(first.req, PathResolve(pomPath))
                       /\ UNCHANGED <<cache, nextId>>
                  ELSE IF EffectiveOptions(options).includeTransitive
                  THEN /\ req' = [first.req EXCEPT
                              !.pc = "run",
                              !.stack = <<[root |-> TRUE,
                                           dependency |-> NoCoordinate,
                                           context |-> first.req.context,
                                           depth |-> -1,
                                           transitiveDeps |-> first.req.direct,
                                           idx |-> 1, out |-> <<>>]>>]
                       /\ UNCHANGED <<cache, nextId>>
                  ELSE Completed(first.req, first.req.direct)

----------------------------------------------------------------------------
(* resolveTransitiveDependencies, one activation per stack frame.  The     *)
(* bottom frame is the loop of parsePom over the direct dependencies; the  *)
(* activation of a dependency called with depth d has frame.depth = d.     *)

Returned == req.pc = "returned"

\* the list returned
Items == req.result.items

Top == req.stack[Len(req.stack)]

Running == req.pc = "run" /\ req.stack # <<>>

AtChild == Running /\ Top.idx <= Len(Top.transitiveDeps)

Child == Top.transitiveDeps[Top.idx]

MaxDepthOf(r) == EffectiveOptions(r.options).maxDepth

\* the loops pass a dependency by without calling
PassedBy ==
    IF Top.root THEN Child.optional # "" ELSE VisitedHas(req.visited, Child)

\* the call made for the child returns [] at its guards
CallReturnsEmpty ==
    ReturnsEmpty(Child, req.visited, Top.depth + 1, MaxDepthOf(req),
                 Child.exclusions)

WithTop(f) == [req.stack EXCEPT ![Len(req.stack)] = f]

\* the child contributes nothing: the loop skips it or its call returns []
SkipChild ==
    /\ AtChild
    /\ PassedBy \/ CallReturnsEmpty
    /\ req' = [req EXCEPT !.stack = WithTop([Top EXCEPT !.idx = @ + 1])]
    /\ Read(IF \/ PassedBy
               \/ Guarded(Child, req.visited, Top.depth + 1, MaxDepthOf(req),
                          Child.exclusions)
            THEN <<>>
            ELSE <<DepPomPath(Child)>>)
    /\ UNCHANGED <<files, cache, nextId, calls>>
    /\ UNCHANGED outside

\* the call made for the child collects the child's declarations, marks
\* the child visited and enters its loop
ExpandChild ==
    /\ AtChild
    /\ ~PassedBy /\ ~CallReturnsEmpty
    /\ \E e \in {Expand(Child, Top.context, Top.depth + 1, Child.exclusions)} :
           /\ Read(<<DepPomPath(Child)>> \o e.reads)
           /\ IF e.st = "hang" THEN req' = [req EXCEPT !.pc = "hung"]
              ELSE IF e.st = "throw"
              THEN Failed(req, PathResolve(req.pomPath))
              ELSE req' = [req EXCEPT
                      !.visited = @ \cup {DepKey(Child)},
                      !.stack = Append(req.stack,
                          [root |-> FALSE, dependency |-> Child,
                           context |-> e.context, depth |-> Top.depth + 1,
                           transitiveDeps |-> e.transitiveDeps,
                           idx |-> 1, out |-> e.transitiveDeps])]
    /\ UNCHANGED <<files, cache, nextId, calls>>
    /\ UNCHANGED outside

\* allTransitive is returned and the dependency stays marked
ReturnToCallerMarked ==
    /\ Running
    /\ ~Top.root
    /\ Top.idx > Len(Top.transitiveDeps)
    /\ req' = [req EXCEPT
           !.stack = Append(SubSeq(req.stack, 1, Len(req.stack) - 2),
                            [req.stack[Len(req.stack) - 1] EXCEPT
                                !.idx = @ + 1, !.out = @ \o Top.out])]
    /\ UNCHANGED <<files, cache, pomCache, parses, nextId, calls>>
    /\ UNCHANGED outside

\* the loop of an activation is over: the dependency is unmarked and
\* allTransitive returned to the caller, which appends it
ReturnToCaller ==
    /\ Running
    /\ ~Top.root
    /\ Top.idx > Len(Top.transitiveDeps)
    /\ req' = [req EXCEPT
           !.visited = @ \ {DepKey(Top.dependency)},
           !.stack = Append(SubSeq(req.stack, 1, Len(req.stack) - 2),
                            [req.stack[Len(req.stack) - 1] EXCEPT
                                !.idx = @ + 1, !.out = @ \o Top.out])]
    /\ UNCHANGED <<files, cache, pomCache, parses, nextId, calls>>
    /\ UNCHANGED outside

\* the loop of parsePom is over: steps 6 and 7 and the cache write
Finish ==
    /\ Running
    /\ Top.root
    /\ Top.idx > Len(Top.transitiveDeps)
    /\ Completed(req, req.direct \o Top.out)
    /\ UNCHANGED <<files, pomCache, parses, calls>>
    /\ UNCHANGED outside

----------------------------------------------------------------------------
(* Character strings *)

ReplaceAll(s, from, to) ==
    [i \in 1..Len(s) |-> IF s[i] = from THEN to ELSE s[i]]

EndsWith(s, t) ==
    /\ Len(t) <= Len(s)
    /\ SubSeq(s, Len(s) - Len(t) + 1, Len(s)) = t

\* 0 stands for -1
LastIndexOf(s, c) ==
    IF \E i \in 1..Len(s) : s[i] = c
    THEN CHOOSE i \in 1..Len(s) :
             s[i] = c /\ \A j \in (i + 1)..Len(s) : s[j] # c
    ELSE 0

DotClass == <<".", "c", "l", "a", "s", "s">>
DotJava == <<".", "j", "a", "v", "a">>

\* className.replace(/\./g, '/') + '.class'
ClassPath(className) == ReplaceAll(className, ".", "/") \o DotClass

----------------------------------------------------------------------------
(* jarLocator.  An archive is [adm, yauzl : whether the library can open   *)
(* it, entries : sequence of [name, data]]; "" stands for null.            *)

\* JarLocator.mavenRepoPath, which the server passes to the constructor
LocatorRepoPath == env.MAVEN_REPO_PATH

\* path.join on a directory that may be empty
PathJoin(dir, name) == IF dir = "" THEN name ELSE dir \o "/" \o name

VersionDir(dependency) ==
    PathJoin(LocatorRepoPath,
             GroupPath(dependency.groupId) \o "/" \o dependency.artifactId
                 \o "/" \o dependency.version)

JarExists(path) == path \in DOMAIN jars

LocateJar(dependency) ==
    The({IF JarExists(jarPath) THEN jarPath
         ELSE IF JarExists(simpleJarPath) THEN simpleJarPath
         ELSE ""
         : jarPath \in {PathJoin(VersionDir(dependency),
                           dependency.artifactId \o "-" \o dependency.version
                           \o (IF dependency.classifier # ""
                               THEN "-" \o dependency.classifier ELSE "")
                           \o ".jar")},
           simpleJarPath \in {PathJoin(VersionDir(dependency),
                                 dependency.artifactId \o "-"
                                 \o dependency.version \o ".jar")}})

LocateSourcesJar(dependency) ==
    The({IF JarExists(sourcesJarPath) THEN sourcesJarPath ELSE ""
         : sourcesJarPath \in {PathJoin(VersionDir(dependency),
                                  dependency.artifactId \o "-"
                                  \o dependency.version \o "-sources.jar")}})

\* the test classExistsInJar makes on the name of an entry
NamesClass(entryName, classPath) ==
    \/ entryName = classPath
    \/ EndsWith(entryName, <<"/">> \o classPath)
    \/ EndsWith(entryName, classPath)

ClassExistsInJar(jarPath, classPath) ==
    IF jars[jarPath].adm
    THEN \E i \in 1..Len(jars[jarPath].entries) :
             NamesClass(jars[jarPath].entries[i].name, classPath)
    ELSE IF jars[jarPath].yauzl
    THEN \E i \in 1..Len(jars[jarPath].entries) :
             NamesClass(jars[jarPath].entries[i].name, classPath)
    ELSE FALSE

NoJar == [found |-> FALSE, jarPath |-> "", dependency |-> NoCoordinate]

FindJarForClass(className, dependencies) ==
    The({IF found = {} THEN NoJar
         ELSE The({[found |-> TRUE,
                    jarPath |-> LocateJar(dependencies[first]),
                    dependency |-> dependencies[first]]
                   : first \in {CHOOSE i \in found :
                                    \A j \in found : i <= j}})
         : found \in {{i \in 1..Len(dependencies) :
                         /\ LocateJar(dependencies[i]) # ""
                         /\ ClassExistsInJar(LocateJar(dependencies[i]),
                                             ClassPath(className))}}})

----------------------------------------------------------------------------
(* classExtractor.  The data of a .class entry is "class" (a class file    *)
(* with the method m and the field f) or "corrupt"; the data of a .java    *)
(* entry is its text.                                                      *)

SourceText == "class { int f; void m() {} }"

\* zip.getEntry(name): the data of the entry of that name, "none" for null
GetEntry(jarPath, name) ==
    IF \E i \in 1..Len(jars[jarPath].entries) :
           jars[jarPath].entries[i].name = name
    THEN jars[jarPath].entries[
             CHOOSE i \in 1..Len(jars[jarPath].entries) :
                 jars[jarPath].entries[i].name = name].data
    ELSE "none"

GetSimpleClassName(className) ==
    SubSeq(className, LastIndexOf(className, ".") + 1, Len(className))

GetPackageName(className) ==
    SubSeq(className, 1, LastIndexOf(className, ".") - 1)

\* no source is ever read
ExtractSourceFromJarNever(className, sourcesJarPath) == ""

\* "" stands for null
ExtractSourceFromJar(className, sourcesJarPath) ==
    IF ~jars[sourcesJarPath].adm THEN ""
    ELSE The({IF data = "none" THEN "" ELSE data
              : data \in {GetEntry(sourcesJarPath,
                             ReplaceAll(className, ".", "/") \o DotJava)}})

ParseMethodsFromSource(sourceCode) ==
    IF sourceCode = SourceText THEN <<"m">> ELSE <<>>

ParseFieldsFromSource(sourceCode) ==
    IF sourceCode = SourceText THEN <<"f">> ELSE <<>>

NoClassInfo == [methods |-> <<>>, fields |-> <<>>, sourceCode |-> ""]

\* the entries of an archive that cannot be opened are read all the same
ParseClassFileOfAnyArchive(className, jarPath) ==
    IF ~JarExists(jarPath) THEN NoClassInfo
    ELSE The({IF data = "class"
              THEN [methods |-> <<"m">>, fields |-> <<"f">>,
                    sourceCode |-> "generated"]
              ELSE NoClassInfo
              : data \in {GetEntry(jarPath, ClassPath(className))}})

ParseClassFile(className, jarPath) ==
    IF ~JarExists(jarPath) \/ ~jars[jarPath].adm THEN NoClassInfo
    ELSE The({IF data = "class"
              THEN [methods |-> <<"m">>, fields |-> <<"f">>,
                    sourceCode |-> "generated"]
              ELSE NoClassInfo
              : data \in {GetEntry(jarPath, ClassPath(className))}})

ExtractClass(className, jarPath, sourcesJarPath) ==
    The({IF sourceCode # ""
         THEN [className |-> GetSimpleClassName(className),
               packageName |-> GetPackageName(className),
               sourceCode |-> sourceCode,
               methods |-> ParseMethodsFromSource(sourceCode),
               fields |-> ParseFieldsFromSource(sourceCode),
               jarPath |-> sourcesJarPath, isFromSources |-> TRUE]
         ELSE The({[className |-> GetSimpleClassName(className),
                    packageName |-> GetPackageName(className),
                    sourceCode |-> classInfo.sourceCode,
                    methods |-> classInfo.methods,
                    fields |-> classInfo.fields,
                    jarPath |-> jarPath, isFromSources |-> FALSE]
                   : classInfo \in {ParseClassFile(className, jarPath)}})
         : sourceCode \in {IF sourcesJarPath # "" /\ JarExists(sourcesJarPath)
                           THEN ExtractSourceFromJar(className, sourcesJarPath)
                           ELSE ""}})

----------------------------------------------------------------------------
(* classExtractor: the descriptors of the class file format.  Positions    *)
(* count from 1 (the code counts from 0).                                  *)

Chars_void == <<"v", "o", "i", "d">>
Chars_Object == <<"O", "b", "j", "e", "c", "t">>

\* the cases of the switch that return a keyword
KeywordCases == {"B", "C", "D", "F", "I", "J", "S", "Z", "V"}

Keyword(char) ==
    CASE char = "B" -> <<"b", "y", "t", "e">>
      [] char = "C" -> <<"c", "h", "a", "r">>
      [] char = "D" -> <<"d", "o", "u", "b", "l", "e">>
      [] char = "F" -> <<"f", "l", "o", "a", "t">>
      [] char = "I" -> <<"i", "n", "t">>
      [] char = "J" -> <<"l", "o", "n", "g">>
      [] char = "S" -> <<"s", "h", "o", "r", "t">>
      [] char = "Z" -> <<"b", "o", "o", "l", "e", "a", "n">>
      [] char = "V" -> Chars_void

\* descriptor.indexOf(c, from); 0 stands for -1
IndexOf(s, c, from) ==
    IF \E i \in from..Len(s) : s[i] = c
    THEN CHOOSE i \in from..Len(s) :
             s[i] = c /\ \A j \in from..(i - 1) : s[j] # c
    ELSE 0

\* case 'L' of parseTypeDescriptor
ObjectTypeKeepsSlashes(descriptor, startIndex) ==
    IF IndexOf(descriptor, ";", startIndex) = 0
    THEN [type |-> Chars_Object, nextIndex |-> startIndex + 1]
    ELSE [type |-> SubSeq(descriptor, startIndex + 1,
                          IndexOf(descriptor, ";", startIndex) - 1),
          nextIndex |-> IndexOf(descriptor, ";", startIndex) + 1]

ObjectType(descriptor, startIndex) ==
    IF IndexOf(descriptor, ";", startIndex) = 0
    THEN [type |-> Chars_Object, nextIndex |-> startIndex + 1]
    ELSE [type |-> ReplaceAll(SubSeq(descriptor, startIndex + 1,
                                     IndexOf(descriptor, ";", startIndex) - 1),
                              "/", "."),
          nextIndex |-> IndexOf(descriptor, ";", startIndex) + 1]

RECURSIVE ParseTypeDescriptor(_, _)
ParseTypeDescriptor(descriptor, startIndex) ==
    IF startIndex > Len(descriptor)
    THEN [type |-> Chars_void, nextIndex |-> startIndex]
    ELSE IF descriptor[startIndex] \in KeywordCases
    THEN [type |-> Keyword(descriptor[startIndex]),
          nextIndex |-> startIndex + 1]
    ELSE IF descriptor[startIndex] = "L"
    THEN ObjectType(descriptor, startIndex)
    ELSE IF descriptor[startIndex] = "["
    THEN The({[type |-> element.type \o <<"[", "]">>,
               nextIndex |-> element.nextIndex]
              : element \in {ParseTypeDescriptor(descriptor,
                                                 startIndex + 1)}})
    ELSE [type |-> Chars_Object, nextIndex |-> startIndex + 1]

\* the while loop of parseMethodDescriptor from position i
RECURSIVE ParseParameters(_, _)
ParseParameters(paramDescriptors, i) ==
    IF i > Len(paramDescriptors) THEN <<>>
    ELSE The({<<parsed.type>>
                  \o ParseParameters(paramDescriptors, parsed.nextIndex)
              : parsed \in {ParseTypeDescriptor(paramDescriptors, i)}})

\* /^\((.*)\)(.+)$/: the greedy first group ends before the last ')' that
\* leaves at least one character to the second group; 0 when none
ClosingIndex(descriptor) ==
    IF \E i \in 2..(Len(descriptor) - 1) : descriptor[i] = ")"
    THEN CHOOSE i \in 2..(Len(descriptor) - 1) :
             /\ descriptor[i] = ")"
             /\ \A j \in (i + 1)..(Len(descriptor) - 1) : descriptor[j] # ")"
    ELSE 0

ParseMethodDescriptor(descriptor) ==
    IF \/ descriptor = <<>>
       \/ Head(descriptor) # "("
       \/ ClosingIndex(descriptor) = 0
    THEN [returnType |-> Chars_void, parameters |-> <<>>]
    ELSE [returnType |->
              ParseTypeDescriptor(
                  SubSeq(descriptor, ClosingIndex(descriptor) + 1,
                         Len(descriptor)), 1).type,
          parameters |->
              ParseParameters(
                  SubSeq(descriptor, 2, ClosingIndex(descriptor) - 1), 1)]

----------------------------------------------------------------------------
(* classExtractor: searchClassesInJar.  The regular expression is the      *)
(* sequence of its atoms [kind, char]: kind "char" matches the character,  *)
(* "any" one character, "anyStar" any run of characters, "end" the end of  *)
(* the input.                                                              *)

\* searchPattern.replace(/\*/g, '.*').replace(/\?/g, '.')
RECURSIVE RegExpSource(_)
RegExpSource(searchPattern) ==
    IF searchPattern = <<>> THEN <<>>
    ELSE (IF Head(searchPattern) = "*" THEN <<".", "*">>
          ELSE IF Head(searchPattern) = "?" THEN <<".">>
          ELSE <<Head(searchPattern)>>)
         \o RegExpSource(Tail(searchPattern))

Atom(kind, char) == [kind |-> kind, char |-> char]

\* new RegExp(source), for sources made of letters, '.', '.*' and '$'
RECURSIVE RegExp(_)
RegExp(source) ==
    IF source = <<>> THEN <<>>
    ELSE IF Head(source) = "." /\ Len(source) >= 2 /\ source[2] = "*"
    THEN <<Atom("anyStar", "")>> \o RegExp(SubSeq(source, 3, Len(source)))
    ELSE IF Head(source) = "."
    THEN <<Atom("any", "")>> \o RegExp(Tail(source))
    ELSE IF Head(source) = "$"
    THEN <<Atom("end", "")>> \o RegExp(Tail(source))
    ELSE <<Atom("char", Head(source))>> \o RegExp(Tail(source))

\* the atoms match a part of s that starts at position i
RECURSIVE MatchesAt(_, _, _)
MatchesAt(atoms, s, i) ==
    IF atoms = <<>> THEN TRUE
    ELSE IF Head(atoms).kind = "anyStar"
    THEN \E k \in i..(Len(s) + 1) : MatchesAt(Tail(atoms), s, k)
    ELSE IF Head(atoms).kind = "end"
    THEN i = Len(s) + 1 /\ MatchesAt(Tail(atoms), s, i)
    ELSE /\ i <= Len(s)
         /\ Head(atoms).kind = "char" => s[i] = Head(atoms).char
         /\ MatchesAt(Tail(atoms), s, i + 1)

\* pattern.test(className), the pattern having no flag
Test(atoms, className) ==
    \E i \in 1..(Len(className) + 1) : MatchesAt(atoms, className, i)

\* entryName.replace(/\.class$/, '').replace(/\//g, '.')
EntryClassName(entryName) ==
    ReplaceAll(SubSeq(entryName, 1, Len(entryName) - Len(DotClass)),
               "/", ".")

RECURSIVE MatchingClasses(_, _)
MatchingClasses(entries, atoms) ==
    IF entries = <<>> THEN <<>>
    ELSE (IF /\ EndsWith(Head(entries).name, DotClass)
             /\ Test(atoms, EntryClassName(Head(entries).name))
          THEN <<EntryClassName(Head(entries).name)>>
          ELSE <<>>)
         \o MatchingClasses(Tail(entries), atoms)

\* an archive that cannot be opened gives the empty list
SearchClassesInJar(jarPath, searchPattern) ==
    IF JarExists(jarPath) /\ jars[jarPath].adm
    THEN MatchingClasses(jars[jarPath].entries,
                         RegExp(RegExpSource(searchPattern)))
    ELSE <<>>

----------------------------------------------------------------------------
(* The bounded caches of the tool layer: a sequence of [key, value], the   *)
(* least recently used entry first                                         *)

ClassDefinitionCacheSize == 50
DependenciesCacheSize == 10

Without(c, key) == SelectSeq(c, LAMBDA e : e.key # key)

\* get: the value, and the entry becomes the most recently used
LruGet(c, key) ==
    IF \E i \in 1..Len(c) : c[i].key = key
    THEN The({[hit |-> TRUE, value |-> e.value,
               cache |-> Append(Without(c, key), e)]
              : e \in {c[CHOOSE i \in 1..Len(c) : c[i].key = key]}})
    ELSE [hit |-> FALSE, value |-> <<>>, cache |-> c]

\* set: the least recently used entry leaves a full cache
LruSet(c, key, value, capacity) ==
    The({Append(IF Len(rest) >= capacity THEN Tail(rest) ELSE rest,
                [key |-> key, value |-> value])
         : rest \in {Without(c, key)}})

----------------------------------------------------------------------------
(* The tool layer.  The text of a response is a sequence of pieces: the    *)
(* literal parts of the template and the values spliced into it.           *)

\* the options the tools pass to parsePom
ToolOptions ==
    [NoOptions EXCEPT !.hasTransitive = TRUE, !.includeTransitive = TRUE,
                      !.hasScopes = TRUE, !.scopes = DefaultScopes]

NoResponse == [isError |-> FALSE, text |-> <<>>]

NoTool ==
    [pc |-> "idle", name |-> "", args |-> [className |-> <<>>, pomPath |-> ""],
     response |-> NoResponse, resolved |-> FALSE, dependencies |-> <<>>,
     n |-> 0]

MissingPomPathResponse(name) ==
    [isError |-> TRUE, text |-> <<"pomPath is required", " for " \o name>>]

ErrorResponse(prefix, errorMessage) ==
    [isError |-> TRUE, text |-> <<prefix, errorMessage>>]

NotFoundResponse(className, pomPath) ==
    [isError |-> FALSE,
     text |-> <<"Class ">> \o className
              \o <<" not found in dependencies of ", pomPath, ".">>]

FormatClassDefinitionResponse(className, classDef) ==
    [isError |-> FALSE,
     text |-> <<"# Class Definition: ">> \o className
              \o <<"**JAR File:** ", classDef.jarPath, "**Source:** ",
                   IF classDef.isFromSources THEN "Sources JAR"
                   ELSE "Compiled Class",
                   "**Package:** ">> \o classDef.packageName
              \o (IF classDef.sourceCode # ""
                  THEN <<"## Source Code", classDef.sourceCode>> ELSE <<>>)
              \o (IF classDef.methods # <<>>
                  THEN <<"## Methods">> \o classDef.methods ELSE <<>>)
              \o (IF classDef.fields # <<>>
                  THEN <<"## Fields">> \o classDef.fields ELSE <<>>)]

RECURSIVE DependencyLines(_)
DependencyLines(dependencies) ==
    IF dependencies = <<>> THEN <<>>
    ELSE The({<<"## ", dependencies[1].groupId \o ":"
                       \o dependencies[1].artifactId \o ":"
                       \o dependencies[1].version,
                "- **Scope:** ", IF dependencies[1].scope = "" THEN "compile"
                                 ELSE dependencies[1].scope>>
              \o (IF dependencies[1].classifier # ""
                  THEN <<"- **Classifier:** ", dependencies[1].classifier>>
                  ELSE <<>>)
              \o <<"- **JAR Path:** ",
                   IF jarPath # "" THEN jarPath
                   ELSE "Not found in local repository">>
              \o rest
              : jarPath \in {LocateJar(dependencies[1])},
                rest \in {DependencyLines(Tail(dependencies))}})

FormatDependenciesResponse(dependencies) ==
    [isError |-> FALSE,
     text |-> IF Len(dependencies) = 0
              THEN <<"No dependencies found in pom.xml">>
              ELSE <<"# Maven Dependencies (", ToString(Len(dependencies)),
                     " total)">> \o DependencyLines(dependencies)]

\* `${pomPath}:${className}`
ClassKey(args) == [pomPath |-> args.pomPath, className |-> args.className]

\* `${pomPath}:${JSON.stringify(parseOptions)}`
DependenciesKey(args) == [pomPath |-> args.pomPath, options |-> ToolOptions]

\* a tool may be called when no tool and no parsePom call is in flight
ToolCanStart ==
    /\ tool.pc \in {"idle", "done"}
    /\ calls < MaxCalls
    /\ req.pc \in {"idle", "returned", "thrown"}

Started(name, args) ==
    [NoTool EXCEPT !.pc = "parsing", !.name = name, !.args = args,
                   !.n = tool.n + 1]

Responded(t, response) == [t EXCEPT !.pc = "done", !.response = response]

\* await this.mavenParser.parsePom(pomPath, {...}), up to its first await
ToolParsePom(pomPath) ==
    /\ \/ ParsePomNoPath(pomPath, ToolOptions)
       \/ ParsePomCached(pomPath, ToolOptions)
       \/ ParsePomStart(pomPath, ToolOptions)
    /\ last' = Summary

Touches(what) == effects' = [effects EXCEPT !.touched = @ \cup what]

\* findClassDefinition up to the call of parsePom
FindClassDefinition(args) ==
    /\ ToolCanStart
    /\ UNCHANGED <<env, jars, dependenciesCache, pure, requests, manager>>
    /\ IF Missing(args.pomPath)
       THEN /\ tool' = Responded(Started("find_class_definition", args),
                           MissingPomPathResponse("find_class_definition"))
            /\ effects' = Touched("find_class_definition", {})
            /\ calls' = calls + 1
            /\ UNCHANGED <<files, cache, pomCache, parses, nextId, req,
                           last, classDefinitionCache>>
       ELSE \E cached \in {LruGet(classDefinitionCache, ClassKey(args))} :
            /\ classDefinitionCache' = cached.cache
            /\ IF cached.hit
               THEN /\ tool' = Responded(
                               Started("find_class_definition", args),
                               FormatClassDefinitionResponse(args.className,
                                                             cached.value))
                    /\ effects' = Touched("find_class_definition",
                                          {"classDefinitionCache"})
                    /\ calls' = calls + 1
                    /\ UNCHANGED <<files, cache, pomCache, parses, nextId,
                                   req, last>>
               ELSE /\ tool' = Started("find_class_definition", args)
                    /\ effects' = Touched("find_class_definition",
                                          {"classDefinitionCache", "parsePom"})
                    /\ ToolParsePom(args.pomPath)

\* findClassDefinition from the return of parsePom
FindClassDefinitionReturn ==
    /\ tool.pc = "parsing"
    /\ tool.name = "find_class_definition"
    /\ req.pc \in {"returned", "thrown"}
    /\ UNCHANGED <<files, cache, pomCache, parses, nextId, calls, req, last,
                   env, jars, dependenciesCache, pure, requests, manager>>
    /\ IF req.pc = "thrown"
       THEN /\ tool' = Responded(tool,
                           ErrorResponse("Error finding class definition: ",
                                         req.error))
            /\ UNCHANGED <<classDefinitionCache, effects>>
       ELSE \E jarInfo \in {FindJarForClass(tool.args.className, Items)} :
            IF ~jarInfo.found
            THEN /\ tool' = [Responded(tool,
                                NotFoundResponse(tool.args.className,
                                                 tool.args.pomPath))
                                EXCEPT !.resolved = TRUE,
                                       !.dependencies = Items]
                 /\ Touches({"jars"})
                 /\ UNCHANGED classDefinitionCache
            ELSE \E classDef \in
                     {ExtractClass(tool.args.className, jarInfo.jarPath,
                                   LocateSourcesJar(jarInfo.dependency))} :
                 /\ tool' = [Responded(tool,
                                FormatClassDefinitionResponse(
                                    tool.args.className, classDef))
                                EXCEPT !.resolved = TRUE,
                                       !.dependencies = Items]
                 /\ Touches({"jars", "classDefinitionCache"})
                 /\ classDefinitionCache' =
                        LruSet(classDefinitionCache, ClassKey(tool.args),
                               classDef, ClassDefinitionCacheSize)

\* listProjectDependencies up to the call of parsePom
ListProjectDependencies(args) ==
    /\ ToolCanStart
    /\ UNCHANGED <<env, jars, classDefinitionCache, pure, requests, manager>>
    /\ IF Missing(args.pomPath)
       THEN /\ tool' = Responded(Started("list_project_dependencies", args),
                           MissingPomPathResponse("list_project_dependencies"))
            /\ effects' = Touched("list_project_dependencies", {})
            /\ calls' = calls + 1
            /\ UNCHANGED <<files, cache, pomCache, parses, nextId, req,
                           last, dependenciesCache>>
       ELSE \E cached \in {LruGet(dependenciesCache, DependenciesKey(args))} :
            /\ dependenciesCache' = cached.cache
            /\ IF cached.hit
               THEN /\ tool' = Responded(
                               Started("list_project_dependencies", args),
                               FormatDependenciesResponse(cached.value.items))
                    /\ effects' = Touched("list_project_dependencies",
                                          {"dependenciesCache"})
                    /\ calls' = calls + 1
                    /\ UNCHANGED <<files, cache, pomCache, parses, nextId,
                                   req, last>>
               ELSE /\ tool' = Started("list_project_dependencies", args)
                    /\ effects' = Touched("list_project_dependencies",
                                          {"dependenciesCache", "parsePom"})
                    /\ ToolParsePom(args.pomPath)

\* listProjectDependencies from the return of parsePom
ListProjectDependenciesReturn ==
    /\ tool.pc = "parsing"
    /\ tool.name = "list_project_dependencies"
    /\ req.pc \in {"returned", "thrown"}
    /\ UNCHANGED <<files, cache, pomCache, parses, nextId, calls, req, last,
                   env, jars, classDefinitionCache, pure, requests, manager>>
    /\ IF req.pc = "thrown"
       THEN /\ tool' = Responded(tool,
                           ErrorResponse("Error listing dependencies: ",
                                         req.error))
            /\ UNCHANGED <<dependenciesCache, effects>>
       ELSE /\ tool' = [Responded(tool, FormatDependenciesResponse(Items))
                           EXCEPT !.resolved = TRUE, !.dependencies = Items]
            /\ Touches({"jars", "dependenciesCache"})
            /\ dependenciesCache' =
                   LruSet(dependenciesCache, DependenciesKey(tool.args),
                          req.result, DependenciesCacheSize)

----------------------------------------------------------------------------
(* The descriptors of the model *)

Decl(groupId, artifactId, version) ==
    [groupId |-> groupId, artifactId |-> artifactId, version |-> version,
     scope |-> "", optional |-> "", classifier |-> "", exclusions |-> <<>>]

\* a declaration g:artifactId:version without placeholders
D(artifactId, version) == Decl(Lit("g"), Lit(artifactId), Lit(version))

Project(artifactId, version, deps) ==
    [groupId |-> "g", artifactId |-> artifactId, version |-> version,
     parent |-> NoParent, properties |-> <<>>, depMgmt |-> <<>>,
     deps |-> deps]

File(project) == [ok |-> TRUE, project |-> project]

\* a file pomParser.parse rejects
Malformed == [ok |-> FALSE, project |-> Project("", "", <<>>)]

\* a file system from a set of <<path, file>> pairs
FileSystem(pairs) ==
    [p \in {x[1] : x \in pairs} |-> (CHOOSE x \in pairs : x[1] = p)[2]]

Versions == {"1", "2"}

\* The dependency graphs: the project /w/app/pom.xml and, in the repository,
\* both versions of the artifacts a, b and c, each artifact with one list of
\* declarations.  The lists give chains, diamonds with a version conflict,
\* ties at equal depth and the cycles a -> b -> a and a -> b -> c -> a.
RootDeps == {<<D("a", "1")>>, <<D("a", "1"), D("b", "2")>>,
             <<D("c", "2"), D("a", "1")>>}
ADeps == {<<>>, <<D("b", "1")>>, <<D("b", "1"), D("c", "1")>>}
BDeps == {<<>>, <<D("a", "2")>>, <<D("c", "2")>>}
CDeps == {<<>>, <<D("a", "2"), D("b", "2")>>}

Graphs(roots, as, bs, cs) ==
    {FileSystem(
        {<<"/w/app/pom.xml", File(Project("app", "1", root))>>}
        \cup {<<RepoPomPath("g", "a", v), File(Project("a", v, a))>> : v \in Versions}
        \cup {<<RepoPomPath("g", "b", v), File(Project("b", v, b))>> : v \in Versions}
        \cup {<<RepoPomPath("g", "c", v), File(Project("c", v, c))>> : v \in Versions})
     : <<root, a, b, c>> \in roots \X as \X bs \X cs}

GraphFiles == Graphs(RootDeps, ADeps, BDeps, CDeps)

\* the graphs among them where a depends on b and b, directly or through c,
\* on a
CycleFiles ==
    Graphs({<<D("a", "1"), D("b", "2")>>, <<D("c", "2"), D("a", "1")>>},
           {<<D("b", "1"), D("c", "1")>>},
           {<<D("a", "2")>>, <<D("c", "2")>>},
           {<<D("a", "2"), D("b", "2")>>})

\* The parent chains: the project /w/app/pom.xml names the parent g:base:1,
\* with or without a relativePath; base is installed in the repository,
\* or lies at the relativePath, or lies at ../pom.xml; base names the parent
\* g:top:1 of the repository.  The project declares a with the version
\* ${v}, ${V} or ${u}; v (or V) is declared by top and, in some chains, by
\* base and by the project; u is declared by no descriptor.  The artifact a has the parent g:abase:1, which
\* declares w, and depends on b with the version ${w}.
Property(name, value) == [name |-> name, value |-> Lit(value)]

Parent(artifactId, relativePath) ==
    [present |-> TRUE, groupId |-> "g", artifactId |-> artifactId,
     version |-> "1", relativePath |-> relativePath]

Places ==
    {[relativePath |-> "", at |-> RepoPomPath("g", "base", "1")],
     [relativePath |-> "", at |-> "/w/pom.xml"],
     [relativePath |-> "../pom.xml", at |-> "/w/pom.xml"],
     [relativePath |-> "../base/pom.xml", at |-> "/w/base/pom.xml"],
     [relativePath |-> "../base/pom.xml", at |-> RepoPomPath("g", "base", "1")]}

Chain(place, name, appProps, baseProps, aProps) ==
    FileSystem(
        {<<"/w/app/pom.xml",
           File([Project("app", "1", <<Decl(Lit("g"), Lit("a"), Ref(name))>>)
                    EXCEPT !.parent = Parent("base", place.relativePath),
                           !.properties = appProps])>>,
         <<place.at,
           File([Project("base", "1", <<>>)
                    EXCEPT !.parent = Parent("top", ""),
                           !.properties = baseProps])>>,
         <<RepoPomPath("g", "top", "1"),
           File([Project("top", "1", <<>>)
                    EXCEPT !.properties = <<Property("v", "3"),
                                            Property("V", "3")>>])>>,
         <<RepoPomPath("g", "abase", "1"),
           File([Project("abase", "1", <<>>)
                    EXCEPT !.properties = <<Property("w", "1")>>])>>}
        \cup {<<RepoPomPath("g", "a", v),
                File([Project("a", v, <<Decl(Lit("g"), Lit("b"), Ref("w"))>>)
                         EXCEPT !.parent = Parent("abase", ""),
                                !.properties = aProps])>>
              : v \in {"1", "2", "3"}}
        \cup {<<RepoPomPath("g", "b", v), File(Project("b", v, <<>>))>>
              : v \in Versions})

ChainFiles ==
    {Chain(place, name, appProps, baseProps, aProps)
     : place \in Places, name \in {"v", "V", "u"},
       appProps \in {<<>>, <<Property("v", "2")>>},
       baseProps \in {<<>>, <<Property("v", "1")>>, <<Property("V", "1")>>},
       aProps \in {<<>>, <<Property("w", "2")>>}}

\* The archives: the project depends on g:a:1, which depends on g:b:1; the
\* repository is where the parser looks for it; a-1.jar holds one class
\* file, which may be corrupt, b-1.jar holds q/C.class and may be unreadable by AdmZip, and
\* a-1-sources.jar, when there, holds p/B.java
Entry(name, data) == [name |-> name, data |-> data]

Jar(adm, entries) == [adm |-> adm, yauzl |-> TRUE, entries |-> entries]

RepoJarPath(artifactId, suffix) ==
    MavenRepoPath \o "/g/" \o artifactId \o "/1/" \o artifactId \o "-1"
        \o suffix \o ".jar"

AEntryNames ==
    {<<"p", "/", "B">> \o DotClass,
     <<"p", "/", "A", "B">> \o DotClass,
     <<"l", "/", "p", "/", "B">> \o DotClass,
     <<"x", "p", "/", "B">> \o DotClass}

JarSets ==
    {FileSystem(
        {<<RepoJarPath("a", ""), Jar(TRUE, <<Entry(name, data)>>)>>,
         <<RepoJarPath("b", ""),
           Jar(adm, <<Entry(<<"M">>, "text"),
                      Entry(<<"q", "/", "C">> \o DotClass, "class")>>)>>}
        \cup (IF adm THEN {}
              ELSE {<<RepoJarPath("a", "-sources"),
                      Jar(TRUE, <<Entry(<<"p", "/", "B">> \o DotJava,
                                        SourceText)>>)>>}))
     : name \in AEntryNames, data \in {"class", "corrupt"}, adm \in BOOLEAN}

ToolFiles == Graphs({<<D("a", "1")>>}, {<<D("b", "1")>>}, {<<>>}, {<<>>})

ClassNames ==
    {<<"p", ".", "B">>, <<"B">>, <<"q", ".", "C">>}

\* every option given, with the value it defaults to
DefaultOptions ==
    [hasTransitive |-> TRUE, includeTransitive |-> TRUE,
     hasScopes |-> TRUE, scopes |-> DefaultScopes,
     hasMaxDepth |-> TRUE, maxDepth |-> DefaultMaxDepth]

\* The calls of the model
OptionSets ==
    {NoOptions,
     [NoOptions EXCEPT !.hasMaxDepth = TRUE, !.maxDepth = 0],
     [NoOptions EXCEPT !.hasMaxDepth = TRUE, !.maxDepth = 1],
     [NoOptions EXCEPT !.hasMaxDepth = TRUE, !.maxDepth = 2],
     [NoOptions EXCEPT !.hasTransitive = TRUE, !.includeTransitive = FALSE],
     DefaultOptions}

PomPaths == {"", "/w/app/pom.xml", "pom.xml"}

FindArgs ==
    {[className |-> className, pomPath |-> pomPath]
     : className \in ClassNames, pomPath \in {"", "/w/app/pom.xml"}}

ListArgs ==
    {[className |-> <<>>, pomPath |-> pomPath] : pomPath \in PomPaths}

----------------------------------------------------------------------------
(* The resolver on the dependency graphs *)

\* no function without state was called
NoPure == [fn |-> "", args |-> <<>>, shape |-> <<>>, result |-> <<>>]

\* no request is suspended at an await
NoRequests == <<>>

\* the workspace folders of the window, by URI
Folders == {"file:///w/a", "file:///w/b"}

\* no process: client map entries and dispose calls name a process by its
\* position in manager.processes
NoProcess == 0

\* new MCPClientManager(context): the client map is empty, no createClient
\* or disposeClient call is awaiting, no server process was spawned
NewManager ==
    [clients |-> [f \in Folders |-> NoProcess],
     processes |-> <<>>,
     creating |-> [f \in Folders |-> [installing |-> 0, registering |-> 0]],
     disposing |-> {},
     invoked |-> 0]

InitResolver ==
    /\ cache = <<>>
    /\ pomCache = {}
    /\ parses = 0
    /\ nextId = 1
    /\ calls = 0
    /\ req = Idle

\* MAVEN_REPO_PATH names the repository
EnvSet == [MAVEN_REPO_PATH |-> "/m2"]

InitOutside ==
    /\ last = NoSummary
    /\ effects = Touched("", {})
    /\ jars = <<>>
    /\ tool = NoTool
    /\ classDefinitionCache = <<>>
    /\ dependenciesCache = <<>>
    /\ pure = NoPure
    /\ requests = NoRequests
    /\ manager = NewManager

Init ==
    /\ env = EnvSet
    /\ files \in GraphFiles
    /\ InitResolver
    /\ InitOutside

\* a call of parsePom by a user of the class
ParsePomOver(pomPaths, optionSets) ==
    /\ \E pomPath \in pomPaths, options \in optionSets :
           \/ ParsePomNoPath(pomPath, options) /\ effects' = Touched("parsePom", {})
           \/ ParsePomCached(pomPath, options)
                 /\ effects' = Touched("parsePom", {"cache"})
           \/ ParsePomStart(pomPath, options)
                 /\ effects' = Touched("parsePom", {"cache", "files"})
    /\ tool.pc # "parsing"
    /\ last' = Summary
    /\ UNCHANGED <<env, jars, tool, classDefinitionCache, dependenciesCache,
                   pure, requests, manager>>

ParsePom == ParsePomOver(PomPaths, OptionSets)

Next ==
    \/ ParsePom
    \/ SkipChild
    \/ ExpandChild
    \/ ReturnToCaller
    \/ Finish

Spec == Init /\ [][Next]_vars

----------------------------------------------------------------------------
(* The server: the tools over the resolver, the locator and the extractor *)

InitTools ==
    /\ env \in {EnvSet, [MAVEN_REPO_PATH |-> ""]}
    /\ files \in ToolFiles
    /\ jars \in JarSets
    /\ InitResolver
    /\ last = NoSummary
    /\ effects = Touched("", {})
    /\ tool = NoTool
    /\ classDefinitionCache = <<>>
    /\ dependenciesCache = <<>>
    /\ pure = NoPure
    /\ requests = NoRequests
    /\ manager = NewManager

CallFindClassDefinition == \E args \in FindArgs : FindClassDefinition(args)

CallListProjectDependencies ==
    \E args \in ListArgs : ListProjectDependencies(args)

NextTools ==
    \/ CallFindClassDefinition
    \/ FindClassDefinitionReturn
    \/ CallListProjectDependencies
    \/ ListProjectDependenciesReturn
    \/ ParsePom
    \/ SkipChild
    \/ ExpandChild
    \/ ReturnToCaller
    \/ Finish

SpecTools == InitTools /\ [][NextTools]_vars

\* a resolution in progress goes on: every await of the resolver is on a
\* synchronous file operation wrapped in an async function
Step == SkipChild \/ ExpandChild \/ ReturnToCaller \/ Finish

InitCycle ==
    /\ env = EnvSet
    /\ files \in CycleFiles
    /\ InitResolver
    /\ InitOutside

SpecCycle == InitCycle /\ [][Next]_vars /\ WF_vars(Step)

----------------------------------------------------------------------------
(* The functions without state of the extractor.  pure is the last call:   *)
(* [fn, args, shape, result]; shape is the structure the descriptor was    *)
(* written from.                                                           *)

\* a type is [dims, base, name]: base is the letter of a primitive type or
\* "L" for the class of that name
Type(dims, base, name) == [dims |-> dims, base |-> base, name |-> name]

ObjectNames ==
    {<<"j", "a", "v", "a", "/", "l", "a", "n", "g", "/",
       "S", "t", "r", "i", "n", "g">>,
     <<"I">>}

FieldTypes ==
    {Type(dims, base, <<>>)
         : dims \in 0..MaxArrayDims,
           base \in {"B", "C", "D", "F", "I", "J", "S", "Z"}}
    \cup {Type(dims, "L", name)
              : dims \in 0..MaxArrayDims, name \in ObjectNames}

ReturnTypes == FieldTypes \cup {Type(0, "V", <<>>)}

RECURSIVE Brackets(_)
Brackets(dims) == IF dims = 0 THEN <<>> ELSE <<"[">> \o Brackets(dims - 1)

\* the descriptor of a type in the class file format
TypeDescriptor(type) ==
    Brackets(type.dims)
        \o (IF type.base = "L" THEN <<"L">> \o type.name \o <<";">>
            ELSE <<type.base>>)

RECURSIVE Concat(_)
Concat(seqs) == IF seqs = <<>> THEN <<>> ELSE Head(seqs) \o Concat(Tail(seqs))

MethodDescriptor(shape) ==
    <<"(">>
        \o Concat([i \in 1..Len(shape.parameters) |->
                       TypeDescriptor(shape.parameters[i])])
        \o <<")">> \o TypeDescriptor(shape.returnType)

MethodShapes ==
    {[parameters |-> parameters, returnType |-> returnType]
         : parameters \in UNION {[1..n -> FieldTypes] : n \in 0..MaxParams},
           returnType \in ReturnTypes}

\* the archives of the search
SearchJars ==
    FileSystem(
        {<<"/jars/foo.jar",
           Jar(TRUE,
               <<Entry(<<"M", "E", "T", "A", "-", "I", "N", "F", "/",
                         "M", "F">>, "text"),
                 Entry(<<"c", "o", "m", "/", "f", "o", "o", "/",
                         "B", "a", "r">> \o DotClass, "class"),
                 Entry(<<"c", "o", "m", "/", "f", "o", "o", "/",
                         "C", "a", "r">> \o DotClass, "class"),
                 Entry(<<"c", "o", "m", "/", "f", "o", "o", "/",
                         "B", "a", "r", "d">> \o DotClass, "class")>>)>>,
         <<"/jars/short.jar",
           Jar(TRUE,
               <<Entry(<<"a">> \o DotClass, "class"),
                 Entry(<<"B", "/", "a">> \o DotClass, "class"),
                 Entry(<<"B", "a", "r">> \o DotClass, "class"),
                 Entry(<<"a", "$", "r">> \o DotClass, "class"),
                 Entry(<<"a", "B">> \o DotJava, SourceText)>>)>>,
         <<"/jars/short-sources.jar",
           Jar(TRUE,
               <<Entry(<<"B", "/", "a">> \o DotJava, SourceText),
                 Entry(<<"a">> \o DotJava, "")>>)>>,
         <<"/jars/broken.jar", Jar(FALSE, <<>>)>>,
         \* in the repository: g:a:1 holds xp/B.class only, g:b:1 cannot be
         \* read by either library, g:c:1 holds p/B.class, g:e:1 holds it
         \* and is read by the second library only; g:d:1 has no archive
         <<RepoJarPath("a", ""),
           Jar(TRUE, <<Entry(<<"x", "p", "/", "B">> \o DotClass, "class")>>)>>,
         <<RepoJarPath("b", ""), [Jar(FALSE, <<>>) EXCEPT !.yauzl = FALSE]>>,
         <<RepoJarPath("c", ""),
           Jar(TRUE, <<Entry(<<"M">>, "text"),
                       Entry(<<"p", "/", "B">> \o DotClass, "class")>>)>>,
         <<RepoJarPath("e", ""),
           Jar(FALSE, <<Entry(<<"p", "/", "B">> \o DotClass, "class"),
                        Entry(<<"q", "/", "C">> \o DotClass, "class")>>)>>})

PatternChars == {"B", "a", "r", ".", "*", "?", "$"}

SearchPatterns ==
    {<<"c", "o", "m", ".", "f", "o", "o", ".", "?", "a", "r">>,
     <<"c", "o", "m", ".", "f", "o", "o", ".", "*">>,
     <<"*", "B", "a", "r">>}
    \cup UNION {[1..n -> PatternChars] : n \in 1..MaxPatternLen}

\* the functions keep no state between calls: a behaviour is one call
CallSearchClassesInJar ==
    /\ pure = NoPure
    /\ \E jarPath \in DOMAIN jars, searchPattern \in SearchPatterns :
           pure' = [fn |-> "searchClassesInJar",
                    args |-> [jarPath |-> jarPath,
                              searchPattern |-> searchPattern],
                    shape |-> <<>>,
                    result |-> SearchClassesInJar(jarPath, searchPattern)]
    /\ UNCHANGED <<files, cache, pomCache, parses, nextId, calls, req, last,
                   effects, env, jars, tool, classDefinitionCache,
                   dependenciesCache, requests, manager>>

CallParseMethodDescriptor ==
    /\ pure = NoPure
    /\ \E shape \in MethodShapes :
           pure' = [fn |-> "parseMethodDescriptor",
                    args |-> [descriptor |-> MethodDescriptor(shape)],
                    shape |-> shape,
                    result |-> ParseMethodDescriptor(MethodDescriptor(shape))]
    /\ UNCHANGED <<files, cache, pomCache, parses, nextId, calls, req, last,
                   effects, env, jars, tool, classDefinitionCache,
                   dependenciesCache, requests, manager>>

\* the classes and the companions of the extraction: none (""), a file
\* that does not exist, an archive with the source, without it or with an
\* empty entry, an archive that cannot be opened
ExtractedClasses == {<<"B", ".", "a">>, <<"a">>, <<"B", "a", "r">>, <<"q", ".", "Z">>}

SourcesJarPaths ==
    {"", "/jars/none.jar", "/jars/short-sources.jar", "/jars/foo.jar",
     "/jars/broken.jar"}

CallExtractClass ==
    /\ pure = NoPure
    /\ \E className \in ExtractedClasses,
          jarPath \in {"/jars/short.jar", "/jars/broken.jar", "/jars/none.jar"},
          sourcesJarPath \in SourcesJarPaths :
           pure' = [fn |-> "extractClass",
                    args |-> [className |-> className, jarPath |-> jarPath,
                              sourcesJarPath |-> sourcesJarPath],
                    shape |-> <<>>,
                    result |-> ExtractClass(className, jarPath,
                                            sourcesJarPath)]
    /\ UNCHANGED <<files, cache, pomCache, parses, nextId, calls, req, last,
                   effects, env, jars, tool, classDefinitionCache,
                   dependenciesCache, requests, manager>>

\* lists of distinct coordinates g:x:1
Artifact(artifactId) ==
    [NoCoordinate EXCEPT !.groupId = "g", !.artifactId = artifactId,
                         !.version = "1", !.scope = "compile"]

DependencyLists ==
    {list \in UNION {[1..n -> {"a", "b", "c", "d", "e"}] : n \in 0..MaxDeps} :
         \A i, j \in 1..Len(list) : i # j => list[i] # list[j]}

CallFindJarForClass ==
    /\ pure = NoPure
    /\ \E className \in {<<"p", ".", "B">>, <<"q", ".", "C">>},
          list \in DependencyLists :
           pure' = [fn |-> "findJarForClass",
                    args |-> [className |-> className,
                              dependencies |->
                                  [i \in 1..Len(list) |-> Artifact(list[i])]],
                    shape |-> <<>>,
                    result |-> FindJarForClass(
                                   className,
                                   [i \in 1..Len(list) |-> Artifact(list[i])])]
    /\ UNCHANGED <<files, cache, pomCache, parses, nextId, calls, req, last,
                   effects, env, jars, tool, classDefinitionCache,
                   dependenciesCache, requests, manager>>

InitExtractor ==
    /\ env = EnvSet
    /\ files = <<>>
    /\ jars = SearchJars
    /\ InitResolver
    /\ last = NoSummary
    /\ effects = Touched("", {})
    /\ tool = NoTool
    /\ classDefinitionCache = <<>>
    /\ dependenciesCache = <<>>
    /\ pure = NoPure
    /\ requests = NoRequests
    /\ manager = NewManager

NextExtractor ==
    \/ CallSearchClassesInJar
    \/ CallParseMethodDescriptor
    \/ CallExtractClass
    \/ CallFindJarForClass

SpecExtractor == InitExtractor /\ [][NextExtractor]_vars

----------------------------------------------------------------------------
(* Properties of the resolver on the dependency graphs *)

\* the call in req resolved the graph itself, rather than answering from
\* the cache
Resolved == Returned /\ req.collected # <<>>

\* the positions of the list that hold the identity of x
Occurrences(list, x) == {i \in 1..Len(list) : DepKey(list[i]) = DepKey(x)}

\* C1: a list returned by parsePom never holds two coordinates with the
\* same groupId:artifactId
C1_UniqueIdentities ==
    Returned =>
        \A i, j \in 1..Len(Items) :
            DepKey(Items[i]) = DepKey(Items[j]) => i = j

\* an identity was collected in two versions and the list was returned
C1_Witness ==
    /\ Resolved
    /\ \E i, j \in 1..Len(req.collected) :
           /\ DepKey(req.collected[i]) = DepKey(req.collected[j])
           /\ req.collected[i].version # req.collected[j].version
    /\ Len(Items) > 1

\* the occurrence of the identity of x that is nearest: of smallest depth
\* and, among those of smallest depth, collected first
Nearest(list, x) ==
    CHOOSE i \in Occurrences(list, x) :
        \A j \in Occurrences(list, x) :
            \/ list[i].depth < list[j].depth
            \/ list[i].depth = list[j].depth /\ i <= j

\* C2: of the collected coordinates (the direct ones, then the transitive
\* ones in the order of collection) that share an identity, the list holds
\* the one of smallest depth and, among equal depths, the first collected,
\* with the version, scope and exclusions of that occurrence
C2_NearestWins ==
    Resolved =>
        /\ \A k \in 1..Len(Items) :
               Items[k] = req.collected[Nearest(req.collected, Items[k])]
        /\ \A i \in 1..Len(req.collected) :
               Includes(EffectiveOptions(req.options).scopes,
                        req.collected[i].scope)
               => \E k \in 1..Len(Items) :
                     DepKey(Items[k]) = DepKey(req.collected[i])

\* two versions of an identity were collected at the same, smallest depth
\* and the list holds the first
C2_Witness ==
    /\ Resolved
    /\ \E i, j \in 1..Len(req.collected) :
           /\ i < j
           /\ i = Nearest(req.collected, req.collected[j])
           /\ req.collected[i].depth = req.collected[j].depth
           /\ req.collected[i].version # req.collected[j].version
           /\ \E k \in 1..Len(Items) : Items[k] = req.collected[i]

\* the identities being expanded: the activations of
\* resolveTransitiveDependencies on the path from a direct dependency
Active == {i \in 1..Len(req.stack) : ~req.stack[i].root}

(* Properties of the resolver on the parent chains *)

InitChain ==
    /\ env = EnvSet
    /\ files \in ChainFiles
    /\ InitResolver
    /\ InitOutside

SpecChain == InitChain /\ [][Next]_vars

\* the descriptor the parent element of the descriptor at path designates:
\* the file at the relativePath (../pom.xml when none is given), else the
\* coordinates in the repository; "" when there is none
ParentFile(path) ==
    LET parent == files[path].project.parent
        hint == RelativePomPath(path, IF parent.relativePath = ""
                                      THEN "../pom.xml"
                                      ELSE parent.relativePath)
    IN  IF ~parent.present THEN ""
        ELSE IF Exists(hint) THEN hint
        ELSE LocatePomInRepository(parent.groupId, parent.artifactId,
                                   parent.version)

Declares(path, name) ==
    \E i \in 1..Len(files[path].project.properties) :
        files[path].project.properties[i].name = name

\* the value of the nearest declaration of the property along the parent
\* chain of the descriptor at path, the descriptor itself first
RECURSIVE ChainValue(_, _)
ChainValue(path, name) ==
    IF path = "" THEN <<>>
    ELSE IF Declares(path, name)
         THEN PropsGet(files[path].project.properties, name)
         ELSE ChainValue(ParentFile(path), name)

\* the declarations of the descriptor at path whose version is the
\* placeholder of a property declared on the chain are, in the list, at
\* the value of the nearest declaration
VersionsFromChain(path, list) ==
    \A i \in 1..Len(files[path].project.deps) :
        LET dep == files[path].project.deps[i]
        IN  /\ Len(dep.version) = 1
            /\ dep.version[1].ref
            /\ ChainValue(path, dep.version[1].s) # <<>>
            => \E k \in 1..Len(list) :
                  /\ list[k].artifactId = Str(dep.artifactId)
                  /\ list[k].version = Str(ChainValue(path, dep.version[1].s))

\* C4: along a parent chain a property declared only by an ancestor is
\* available to the placeholders of the dependencies of the descendant and
\* a property declared by both has the value of the descendant
C4_ChainProperties ==
    /\ req.pc \in {"run", "returned"} /\ req.direct # <<>>
       => VersionsFromChain(PathResolve(req.pomPath), req.direct)
    /\ \A i \in Active :
          VersionsFromChain(DepPomPath(req.stack[i].dependency),
                            req.stack[i].transitiveDeps)

Ended == req.pc \in {"returned", "thrown"}

\* C3: parsePom ends on graphs with cycles, where a depends on b and b on
\* a: an identity that is being expanded is never expanded again below
\* itself, and every resolution in progress ends
C3_CycleEnds ==
    /\ [](\A i, j \in Active :
             DepKey(req.stack[i].dependency) = DepKey(req.stack[j].dependency)
             => i = j)
    /\ [](req.visited = {DepKey(req.stack[i].dependency) : i \in Active})
    /\ (req.pc = "run") ~> Ended

\* the loop of an activation meets an identity that is being expanded
C3_Witness ==
    /\ AtChild
    /\ ~Top.root
    /\ \E i \in Active : DepKey(req.stack[i].dependency) = DepKey(Child)

\* the call in req has the arguments of the successful call before it:
\* the same path and the same options, or no options against the defaults
\* spelled out
Repeated ==
    /\ last.pc = "returned"
    /\ req.pc # "idle"
    /\ req.pomPath = last.pomPath
    /\ \/ req.options = last.options
       \/ {req.options, last.options} = {NoOptions, DefaultOptions}

\* C7: parsePom called twice in sequence with the same path and the same
\* options answers the second call at once with the array instance of the
\* first, hence an equal list, and parses no descriptor again; options
\* equal to the defaults share the cache entry of a call without options
C7_SecondCallFromCache ==
    Repeated =>
        /\ Returned
        /\ req.result.id = last.result.id
        /\ req.result.items = last.result.items
        /\ parses = last.parses
        /\ pomCache = last.pomCache

\* a call without options, then a call with the defaults spelled out, on a
\* project with dependencies
C7_Witness ==
    /\ Repeated
    /\ last.options = NoOptions
    /\ req.options = DefaultOptions
    /\ Returned
    /\ Len(Items) > 1
    /\ last.parses > 1

\* C10: with maxDepth: N passed to parsePom, no coordinate of the list has
\* a depth above N
C10_DepthWithinMaxDepth ==
    Returned /\ req.options.hasMaxDepth =>
        \A k \in 1..Len(Items) : Items[k].depth <= req.options.maxDepth

----------------------------------------------------------------------------
(* Properties of the server *)

Contains(text, piece) == \E i \in 1..Len(text) : text[i] = piece

ToolNames == {"find_class_definition", "list_project_dependencies"}

InArchive(className, jarPath) ==
    \E i \in 1..Len(jars[jarPath].entries) :
        \/ jars[jarPath].entries[i].name = ClassPath(className)
        \/ EndsWith(jars[jarPath].entries[i].name,
                    <<"/">> \o ClassPath(className))

InNoArchive(className, dependencies) ==
    \A i \in 1..Len(dependencies) :
        LocateJar(dependencies[i]) # ""
        => ~InArchive(className, LocateJar(dependencies[i]))

\* C6: when the class is in no archive of the resolved dependencies,
\* findJarForClass returns null and findClassDefinition answers that the
\* class was not found, without isError
C6_ClassNotFound ==
    /\ tool.pc = "done"
    /\ tool.name = "find_class_definition"
    /\ tool.resolved
    /\ InNoArchive(tool.args.className, tool.dependencies)
    => /\ ~FindJarForClass(tool.args.className, tool.dependencies).found
       /\ ~tool.response.isError
       /\ Contains(tool.response.text, " not found in dependencies of ")

----------------------------------------------------------------------------
(* Properties of the extractor *)

\* the glob matches the whole name: '*' any sequence, '?' one character,
\* every other character itself
RECURSIVE GlobMatches(_, _)
GlobMatches(glob, name) ==
    IF glob = <<>> THEN name = <<>>
    ELSE IF Head(glob) = "*"
    THEN \E k \in 0..Len(name) :
             GlobMatches(Tail(glob), SubSeq(name, k + 1, Len(name)))
    ELSE /\ name # <<>>
         /\ Head(glob) = "?" \/ Head(glob) = Head(name)
         /\ GlobMatches(Tail(glob), Tail(name))

\* the dotted names of the .class entries that the glob matches, in the
\* order of the archive
RECURSIVE GlobSelection(_, _)
GlobSelection(entries, glob) ==
    IF entries = <<>> THEN <<>>
    ELSE (IF /\ EndsWith(Head(entries).name, DotClass)
             /\ GlobMatches(glob,
                    ReplaceAll(SubSeq(Head(entries).name, 1,
                                      Len(Head(entries).name) - Len(DotClass)),
                               "/", "."))
          THEN <<ReplaceAll(SubSeq(Head(entries).name, 1,
                                   Len(Head(entries).name) - Len(DotClass)), "/", ".")>>
          ELSE <<>>)
         \o GlobSelection(Tail(entries), glob)

\* C8: searchClassesInJar returns exactly the dotted names of the .class
\* entries of the archive that the glob matches as a whole, '*' standing for
\* any sequence, '?' for one character and every other character for itself
C8_AnchoredGlob ==
    pure.fn = "searchClassesInJar"
    => pure.result = GlobSelection(jars[pure.args.jarPath].entries,
                                   pure.args.searchPattern)

\* the Java name of a type
JavaKeyword ==
    [B |-> <<"b", "y", "t", "e">>,
     C |-> <<"c", "h", "a", "r">>,
     D |-> <<"d", "o", "u", "b", "l", "e">>,
     F |-> <<"f", "l", "o", "a", "t">>,
     I |-> <<"i", "n", "t">>,
     J |-> <<"l", "o", "n", "g">>,
     S |-> <<"s", "h", "o", "r", "t">>,
     Z |-> <<"b", "o", "o", "l", "e", "a", "n">>,
     V |-> <<"v", "o", "i", "d">>]

RECURSIVE Rendering(_)
Rendering(type) ==
    IF type.dims > 0
    THEN Rendering([type EXCEPT !.dims = @ - 1]) \o <<"[", "]">>
    ELSE IF type.base = "L"
    THEN [i \in 1..Len(type.name) |->
              IF type.name[i] = "/" THEN "." ELSE type.name[i]]
    ELSE JavaKeyword[type.base]

\* C9: for the descriptor '(' d1 ... dn ')' r, parseMethodDescriptor returns
\* the renderings of d1 .. dn, in order, as the parameters and the rendering
\* of r as the return type: keywords for the primitive letters and V, the
\* dotted name for L<name>;, the rendering of d followed by [] for [d
C9_DescriptorRendering ==
    pure.fn = "parseMethodDescriptor"
    => /\ Len(pure.result.parameters) = Len(pure.shape.parameters)
       /\ \A i \in 1..Len(pure.shape.parameters) :
              pure.result.parameters[i] = Rendering(pure.shape.parameters[i])
       /\ pure.result.returnType = Rendering(pure.shape.returnType)

\* (Ljava/lang/String;I)V was parsed to [java.lang.String, int] and void
C9_Witness ==
    /\ pure.fn = "parseMethodDescriptor"
    /\ pure.args.descriptor
           = <<"(", "L", "j", "a", "v", "a", "/", "l", "a", "n", "g", "/",
               "S", "t", "r", "i", "n", "g", ";", "I", ")", "V">>
    /\ pure.result.parameters
           = << <<"j", "a", "v", "a", ".", "l", "a", "n", "g", ".",
                  "S", "t", "r", "i", "n", "g">>,
                <<"i", "n", "t">> >>
    /\ pure.result.returnType = <<"v", "o", "i", "d">>

----------------------------------------------------------------------------
(* The resolver on declarations with scopes *)

Scoped(decl, scope) == [decl EXCEPT !.scope = scope]

\* graphs in which an identity is declared with different scopes at
\* different depths
ScopeFiles ==
    Graphs({<<D("a", "1"), Scoped(D("b", "2"), "test")>>,
            <<Scoped(D("a", "1"), "runtime"), Scoped(D("c", "1"), "provided")>>,
            <<Scoped(D("a", "1"), "test"), D("b", "1")>>},
           {<<D("b", "1")>>,
            <<Scoped(D("b", "1"), "runtime"), Scoped(D("c", "2"), "test")>>},
           {<<>>, <<D("c", "2")>>, <<Scoped(D("a", "2"), "test")>>},
           {<<>>})

WithScopes(scopes) == [NoOptions EXCEPT !.hasScopes = TRUE, !.scopes = scopes]

ScopeOptionSets ==
    {NoOptions,
     WithScopes(<<>>),
     WithScopes(<<"compile">>),
     WithScopes(<<"test">>),
     WithScopes(<<"compile", "runtime">>),
     WithScopes(<<"compile", "runtime", "test", "provided">>)}

InitScope ==
    /\ env = EnvSet
    /\ files \in ScopeFiles
    /\ InitResolver
    /\ InitOutside

ParsePomScoped == ParsePomOver(PomPaths, ScopeOptionSets)

NextScope ==
    \/ ParsePomScoped
    \/ SkipChild
    \/ ExpandChild
    \/ ReturnToCaller
    \/ Finish

SpecScope == InitScope /\ [][NextScope]_vars

\* the scopes a call asks for
ScopeSet(options) ==
    {EffectiveOptions(options).scopes[i]
         : i \in 1..Len(EffectiveOptions(options).scopes)}

\* s is t with some elements left out
RECURSIVE IsSubList(_, _)
IsSubList(s, t) ==
    IF s = <<>> THEN TRUE
    ELSE IF t = <<>> THEN FALSE
    ELSE IF Head(s) = Head(t) THEN IsSubList(Tail(s), Tail(t))
    ELSE IsSubList(s, Tail(t))

\* the call in req and the call before it differ in their scopes only
SameButScopes ==
    /\ Returned
    /\ last.pc = "returned"
    /\ PathResolve(last.pomPath) = PathResolve(req.pomPath)
    /\ EffectiveOptions(last.options).includeTransitive
           = EffectiveOptions(req.options).includeTransitive
    /\ EffectiveOptions(last.options).maxDepth
           = EffectiveOptions(req.options).maxDepth

\* C11: every coordinate parsePom returns has an effective scope (its scope,
\* compile when it has none) in the configured scope set, and of two calls
\* that differ in their scope sets only, the one with the smaller set returns
\* a sub-list of what the other returns
C11_ScopeFilter ==
    /\ Returned
       => \A i \in 1..Len(Items) :
              (IF Items[i].scope = "" THEN "compile" ELSE Items[i].scope)
                  \in ScopeSet(req.options)
    /\ SameButScopes /\ ScopeSet(last.options) \subseteq ScopeSet(req.options)
       => IsSubList(last.result.items, Items)
    /\ SameButScopes /\ ScopeSet(req.options) \subseteq ScopeSet(last.options)
       => IsSubList(Items, last.result.items)

\* the second of two calls asked for more scopes and returned more, and the
\* first left out an identity whose nearest declaration has a scope it did
\* not ask for
C11_Witness ==
    /\ SameButScopes
    /\ ScopeSet(last.options) \subseteq ScopeSet(req.options)
    /\ last.result.items # <<>>
    /\ Len(last.result.items) < Len(Items)
    /\ \E i \in 1..Len(req.collected) :
           /\ req.collected[i].scope \in ScopeSet(last.options)
           /\ \A j \in 1..Len(last.result.items) :
                  DepKey(last.result.items[j]) # DepKey(req.collected[i])

----------------------------------------------------------------------------
(* Properties of extractClass *)

\* the text of the source of the class in the companion; "" when the
\* companion was not given, does not exist, cannot be opened or holds no
\* text for the class
CompanionSource(className, sourcesJarPath) ==
    IF /\ sourcesJarPath # ""
       /\ sourcesJarPath \in DOMAIN jars
       /\ jars[sourcesJarPath].adm
       /\ \E i \in 1..Len(jars[sourcesJarPath].entries) :
              jars[sourcesJarPath].entries[i].name
                  = [k \in 1..Len(className) |->
                         IF className[k] = "." THEN "/" ELSE className[k]]
                    \o <<".", "j", "a", "v", "a">>
    THEN jars[sourcesJarPath].entries[
             CHOOSE i \in 1..Len(jars[sourcesJarPath].entries) :
                 jars[sourcesJarPath].entries[i].name
                     = [k \in 1..Len(className) |->
                            IF className[k] = "." THEN "/" ELSE className[k]]
                       \o <<".", "j", "a", "v", "a">>].data
    ELSE ""

\* C12: extractClass answers isFromSources = true exactly when a companion
\* was given, exists and gave non-empty source text for the class, and then
\* jarPath is the companion; in every other case isFromSources is false and
\* jarPath is the primary archive
C12_FromSources ==
    pure.fn = "extractClass"
    => /\ pure.result.isFromSources
             <=> CompanionSource(pure.args.className,
                                 pure.args.sourcesJarPath) # ""
       /\ pure.result.isFromSources
             => /\ pure.result.jarPath = pure.args.sourcesJarPath
                /\ pure.result.sourceCode
                       = CompanionSource(pure.args.className,
                                         pure.args.sourcesJarPath)
       /\ ~pure.result.isFromSources
             => pure.result.jarPath = pure.args.jarPath

\* the source of B.a was read from the companion
C12_Witness ==
    /\ pure.fn = "extractClass"
    /\ pure.args.sourcesJarPath = "/jars/short-sources.jar"
    /\ pure.result.isFromSources
    /\ pure.result.jarPath = "/jars/short-sources.jar"
    /\ pure.result.sourceCode = SourceText

----------------------------------------------------------------------------
(* Properties of findJarForClass *)

\* the path of the archive of g:artifactId:version in the repository of
\* the locator
ArchivePath(dependency) ==
    env.MAVEN_REPO_PATH \o "/" \o dependency.groupId \o "/"
        \o dependency.artifactId \o "/" \o dependency.version \o "/"
        \o dependency.artifactId \o "-" \o dependency.version \o ".jar"

\* the archive of the coordinate exists, can be read by one of the two
\* libraries and holds the class file of the class, at its path or at its
\* path under a directory prefix
HoldsClass(dependency, className) ==
    /\ ArchivePath(dependency) \in DOMAIN jars
    /\ jars[ArchivePath(dependency)].adm \/ jars[ArchivePath(dependency)].yauzl
    /\ InArchive(className, ArchivePath(dependency))

\* C13: findJarForClass returns the first coordinate, in input order, whose
\* archive contains the class, and null when none does; a coordinate whose
\* archive is missing or cannot be read is passed over and the scan goes on
C13_FirstContaining ==
    pure.fn = "findJarForClass"
    => IF \E i \in 1..Len(pure.args.dependencies) :
              HoldsClass(pure.args.dependencies[i], pure.args.className)
       THEN /\ pure.result.found
            /\ \E i \in 1..Len(pure.args.dependencies) :
                   /\ HoldsClass(pure.args.dependencies[i], pure.args.className)
                   /\ \A j \in 1..(i - 1) :
                          ~HoldsClass(pure.args.dependencies[j],
                                    pure.args.className)
                   /\ pure.result.dependency = pure.args.dependencies[i]
                   /\ pure.result.jarPath
                          = ArchivePath(pure.args.dependencies[i])
       ELSE ~pure.result.found

----------------------------------------------------------------------------
(* The resolver on a repository in which the descriptor of a dependency    *)
(* gets lost or damaged                                                    *)

\* graphs in which g:b declares nothing
LeafFiles ==
    Graphs({<<D("a", "1")>>, <<D("b", "1"), D("a", "1")>>},
           {<<D("b", "1"), D("c", "1")>>, <<D("c", "1"), D("b", "2")>>},
           {<<>>},
           {<<>>, <<D("b", "2")>>})

BrokenOptionSets ==
    {NoOptions,
     [NoOptions EXCEPT !.hasMaxDepth = TRUE, !.maxDepth = 1],
     [NoOptions EXCEPT !.hasTransitive = TRUE, !.includeTransitive = FALSE]}

\* some descriptor of g:b cannot be located or cannot be parsed
Broken == \E v \in Versions : ~Parsable(RepoPomPath("g", "b", v))

InitBroken ==
    /\ env = EnvSet
    /\ files \in LeafFiles
    /\ InitResolver
    /\ InitOutside

\* descriptors of g:b are removed from the repository or overwritten with
\* text that is no descriptor, and the server starts anew: new MavenParser()
NewParserOnBrokenRepository ==
    /\ req.pc \in {"idle", "returned", "thrown"}
    /\ ~Broken
    /\ \E lost \in (SUBSET Versions) \ {{}}, removed \in BOOLEAN :
           files' = IF removed
                    THEN [path \in DOMAIN files
                                  \ {RepoPomPath("g", "b", v) : v \in lost}
                              |-> files[path]]
                    ELSE [path \in DOMAIN files |->
                              IF path \in {RepoPomPath("g", "b", v) : v \in lost}
                              THEN Malformed ELSE files[path]]
    /\ cache' = <<>>
    /\ pomCache' = {}
    /\ parses' = 0
    /\ UNCHANGED <<nextId, calls, req>>
    /\ UNCHANGED outside

ParsePomBroken == ParsePomOver(PomPaths, BrokenOptionSets)

NextBroken ==
    \/ ParsePomBroken
    \/ NewParserOnBrokenRepository
    \/ SkipChild
    \/ ExpandChild
    \/ ReturnToCaller
    \/ Finish

SpecBroken == InitBroken /\ [][NextBroken]_vars

\* the call in req and the call before it returned, for the same descriptor
\* and the same options
SameCall ==
    /\ Returned
    /\ last.pc = "returned"
    /\ PathResolve(last.pomPath) = PathResolve(req.pomPath)
    /\ EffectiveOptions(last.options) = EffectiveOptions(req.options)

\* C14: when the descriptor of a dependency cannot be located or parsed,
\* parsePom still returns, and it returns what it returns when that
\* dependency has a descriptor without dependencies: the dependency is in
\* the result, has no children, and the rest of the result is the same
C14_BrokenBranch ==
    /\ Broken /\ req.pomPath # "" => req.pc \notin {"thrown", "hung"}
    /\ Broken /\ SameCall => Items = last.result.items

\* the same call was resolved before and after g:b lost its descriptor, and
\* g:b is in the result where the graph was resolved through g:b's siblings
C14_Witness ==
    /\ Broken
    /\ SameCall
    /\ req.result.id # last.result.id
    /\ \E i \in 1..Len(Items) : Items[i].artifactId = "b" /\ Items[i].depth > 0
    /\ \E i \in 1..Len(Items) : Items[i].artifactId = "c"

----------------------------------------------------------------------------
(* Properties of the declarations that do not resolve                      *)

\* the texts that are one placeholder
PlaceholderTexts == {Str(Ref(name)) : name \in {"v", "V", "u", "w"}}

\* version.includes('${') on the versions of the parent chains, which are
\* a number or one placeholder
HoldsPlaceholder(version) == version \in PlaceholderTexts

\* the declarations of the descriptor at path whose version is the
\* placeholder of a property that no descriptor of its chain declares
Unresolvable(path) ==
    {i \in 1..Len(files[path].project.deps) :
        LET dep == files[path].project.deps[i]
        IN  /\ Len(dep.version) = 1
            /\ dep.version[1].ref
            /\ ChainValue(path, dep.version[1].s) = <<>>}

\* C15: a declaration whose version does not resolve is left out of the
\* direct dependencies, the call does not fail for it, and no coordinate of
\* a result has a version with a placeholder in it
C15_UnresolvedDropped ==
    /\ req.pc \in {"run", "returned"} /\ req.direct # <<>>
       => \A i \in Unresolvable(PathResolve(req.pomPath)) :
             \A k \in 1..Len(req.direct) :
                req.direct[k].artifactId
                    # Str(files[PathResolve(req.pomPath)].project.deps[i].artifactId)
    /\ Returned => \A k \in 1..Len(Items) : ~HoldsPlaceholder(Items[k].version)

----------------------------------------------------------------------------
(* Properties of the lookup of the parent descriptor                       *)

\* C16: the parent descriptor is the file at the relativePath hint when a
\* file is there and the descriptor of the repository otherwise, so a call
\* that got past its parent lookup has parsed that descriptor; and a call
\* on a descriptor whose parent is found at neither place does not fail
C16_HintFirst ==
    LET path == PathResolve(req.pomPath)
    IN  /\ req.pc \in {"run", "returned"} /\ Parsable(ParentFile(path))
           => ParentFile(path) \in pomCache
        /\ req.pomPath # "" /\ Parsable(path) /\ ParentFile(path) = ""
           => req.pc # "thrown"

----------------------------------------------------------------------------
(* The resolver on descriptors with dependencyManagement sections: the     *)
(* project depends on g:a:1, whose parent is g:abase:1; a declares b with  *)
(* or without a version; b is managed by a, by abase, by the project or by *)
(* none of them; b declares nothing or declares a                          *)

ManagedFiles ==
    {FileSystem(
        {<<"/w/app/pom.xml",
           File([Project("app", "1", <<D("a", "1")>>)
                    EXCEPT !.depMgmt = appMgmt])>>,
         <<RepoPomPath("g", "abase", "1"),
           File([Project("abase", "1", <<>>) EXCEPT !.depMgmt = abaseMgmt])>>,
         <<RepoPomPath("g", "a", "1"),
           File([Project("a", "1", aDeps)
                    EXCEPT !.parent = Parent("abase", ""),
                           !.depMgmt = aMgmt])>>}
        \cup {<<RepoPomPath("g", "b", v), File(Project("b", v, bDeps))>>
              : v \in Versions})
     : appMgmt \in {<<>>, <<D("b", "2")>>},
       abaseMgmt \in {<<>>, <<D("b", "2")>>},
       aMgmt \in {<<>>, <<D("b", "1")>>},
       aDeps \in {<<Decl(Lit("g"), Lit("b"), <<>>)>>, <<D("b", "2")>>},
       bDeps \in {<<>>, <<D("a", "1")>>}}

InitManaged ==
    /\ env = EnvSet
    /\ files \in ManagedFiles
    /\ InitResolver
    /\ InitOutside

SpecManaged == InitManaged /\ [][Next]_vars

\* the version the dependencyManagement section of the descriptor at path
\* gives to the identity; "" when it gives none
OwnManagedVersion(path, groupId, artifactId) ==
    LET depMgmt == files[path].project.depMgmt
        entries == {i \in 1..Len(depMgmt) :
                       /\ Str(depMgmt[i].groupId) = groupId
                       /\ Str(depMgmt[i].artifactId) = artifactId}
    IN  IF entries = {} THEN ""
        ELSE Str(depMgmt[CHOOSE i \in entries :
                            \A j \in entries : j <= i].version)

\* the declarations without a version of the descriptor at path that its
\* own dependencyManagement section manages are, in the list, at the
\* managed version
ManagedByOwn(path, list) ==
    \A i \in 1..Len(files[path].project.deps) :
        LET dep == files[path].project.deps[i]
            version == OwnManagedVersion(path, Str(dep.groupId),
                                         Str(dep.artifactId))
        IN  dep.version = <<>> /\ version # ""
            => \E k \in 1..Len(list) :
                  /\ list[k].groupId = Str(dep.groupId)
                  /\ list[k].artifactId = Str(dep.artifactId)
                  /\ list[k].version = version

\* C17: the declarations of a transitive dependency are resolved in the
\* context of the dependency's own descriptor: a declaration without a
\* version that the descriptor's own dependencyManagement section manages
\* is collected with the managed version
C17_OwnContext ==
    \A i \in Active :
        ManagedByOwn(DepPomPath(req.stack[i].dependency),
                     req.stack[i].transitiveDeps)

----------------------------------------------------------------------------
(* Properties of the repository root *)

\* C18: the parser and the locator of the server have the same repository
\* root, whether MAVEN_REPO_PATH is set or not: an archive that lies in the
\* repository of the parser next to the descriptor of its artifact is
\* where the locator looks for it
C18_SameRoot ==
    /\ LocatorRepoPath = MavenRepoPath
    /\ \A artifactId \in {"a", "b"} :
          JarExists(RepoJarPath(artifactId, ""))
          => LocateJar(Artifact(artifactId)) = RepoJarPath(artifactId, "")

----------------------------------------------------------------------------
(* getAccessFlags on every 16-bit value *)

\* flags & mask for a mask of one bit: whether it is non-zero
Bit(flags, mask) == (flags \div mask) % 2 = 1

\* the pushes of the access modifier and of the other modifiers
Pushed(flags) ==
    (IF Bit(flags, 1) THEN <<"public">>
     ELSE IF Bit(flags, 2) THEN <<"private">>
     ELSE IF Bit(flags, 4) THEN <<"protected">>
     ELSE <<>>)
    \o (IF Bit(flags, 8) THEN <<"static">> ELSE <<>>)
    \o (IF Bit(flags, 16) THEN <<"final">> ELSE <<>>)
    \o (IF Bit(flags, 32) THEN <<"synchronized">> ELSE <<>>)
    \o (IF Bit(flags, 256) THEN <<"native">> ELSE <<>>)
    \o (IF Bit(flags, 1024) THEN <<"abstract">> ELSE <<>>)
    \o (IF Bit(flags, 2048) THEN <<"strictfp">> ELSE <<>>)

\* no access modifier is put in front
GetAccessFlagsAsPushed(flags) == Pushed(flags)

GetAccessFlags(flags) ==
    \* modifiers.some(m => ['public', 'private', 'protected'].includes(m))
    IF \E i \in 1..Len(Pushed(flags)) :
          Pushed(flags)[i] \in {"public", "private", "protected"}
    THEN Pushed(flags)
    ELSE <<"public">> \o Pushed(flags)

\* the access_flags of a class file: two bytes
AccessFlags == 0..(2^16 - 1)

CallGetAccessFlags ==
    /\ pure = NoPure
    /\ \E flags \in AccessFlags :
           pure' = [fn |-> "getAccessFlags", args |-> [flags |-> flags],
                    result |-> GetAccessFlags(flags)]
    /\ UNCHANGED <<files, cache, pomCache, parses, nextId, calls, req, last,
                   effects, env, jars, tool, classDefinitionCache,
                   dependenciesCache, requests, manager>>

SpecFlags == InitExtractor /\ [][CallGetAccessFlags]_vars

\* the keywords after the visibility, each with its bit, in their order
OtherModifiers ==
    <<[keyword |-> "static", mask |-> 8], [keyword |-> "final", mask |-> 16],
      [keyword |-> "synchronized", mask |-> 32],
      [keyword |-> "native", mask |-> 256],
      [keyword |-> "abstract", mask |-> 1024],
      [keyword |-> "strictfp", mask |-> 2048]>>

\* the keywords of the modifiers whose bit is set, in the order of the list
RECURSIVE SetModifiers(_, _)
SetModifiers(modifiers, flags) ==
    IF modifiers = <<>> THEN <<>>
    ELSE (IF (flags \div modifiers[1].mask) % 2 = 1
          THEN <<modifiers[1].keyword>> ELSE <<>>)
         \o SetModifiers(Tail(modifiers), flags)

\* C19: getAccessFlags returns the visibility first (public for bit 0x0001,
\* else private for 0x0002, else protected for 0x0004, else public), which
\* is the only visibility keyword of the list, and then the keywords static,
\* final, synchronized, native, abstract, strictfp whose bit is set, in
\* that order
C19_AccessFlags ==
    pure.fn = "getAccessFlags"
    => LET flags == pure.args.flags
           low == flags % 8
       IN  /\ pure.result # <<>>
           /\ pure.result[1] = (IF low % 2 = 1 THEN "public"
                                ELSE IF low \in {2, 6} THEN "private"
                                ELSE IF low = 4 THEN "protected"
                                ELSE "public")
           /\ \A i \in 2..Len(pure.result) :
                  pure.result[i] \notin {"public", "private", "protected"}
           /\ Tail(pure.result) = SetModifiers(OtherModifiers, flags)

\* the flags 0x0418 have no visibility bit: public is put in front of
\* static, final and abstract
C19_Witness ==
    /\ pure.fn = "getAccessFlags"
    /\ pure.args.flags = 1048
    /\ pure.result = <<"public", "static", "final", "abstract">>

----------------------------------------------------------------------------
(* Properties of the decoding of class files *)

\* what findJarForClass returned to the tool
FoundJar == FindJarForClass(tool.args.className, tool.dependencies)

\* the class file of the class cannot be decoded from the archive: the
\* archive cannot be opened, has no entry at the path of the class, or the
\* entry is no class file
DecodeFails(className, jarPath) ==
    \/ jarPath \notin DOMAIN jars
    \/ ~jars[jarPath].adm
    \/ \A i \in 1..Len(jars[jarPath].entries) :
          jars[jarPath].entries[i].name = ClassPath(className)
          => jars[jarPath].entries[i].data # "class"

\* findClassDefinition resolved the dependencies, an archive was found for
\* the class, no companion gave its source and its class file cannot be
\* decoded
DecodeFailed ==
    /\ tool.pc = "done"
    /\ tool.name = "find_class_definition"
    /\ tool.resolved
    /\ FoundJar.found
    /\ CompanionSource(tool.args.className,
                       LocateSourcesJar(FoundJar.dependency)) = ""
    /\ DecodeFails(tool.args.className, FoundJar.jarPath)

\* C20: when the class file cannot be decoded, extractClass returns a
\* definition without methods, fields and source text, not from sources,
\* and findClassDefinition answers with it, without isError
C20_DecodeFailure ==
    DecodeFailed
    => LET cached == LruGet(classDefinitionCache, ClassKey(tool.args))
       IN  /\ cached.hit
           /\ cached.value.methods = <<>>
           /\ cached.value.fields = <<>>
           /\ cached.value.sourceCode = ""
           /\ ~cached.value.isFromSources
           /\ cached.value.jarPath = FoundJar.jarPath
           /\ ~tool.response.isError
           /\ Contains(tool.response.text, "Compiled Class")
           /\ ~Contains(tool.response.text, "## Methods")

\* the class q.C was found in an archive that cannot be opened for decoding
C20_Witness ==
    /\ DecodeFailed
    /\ ~jars[FoundJar.jarPath].adm
    /\ tool.args.className = <<"q", ".", "C">>
    /\ ~tool.response.isError

----------------------------------------------------------------------------
(* The resolver on declarations with exclusions: the project declares a    *)
(* with or without an exclusion of c, of b or of every artifact; a         *)
(* declares b and c; b declares c and, in some graphs, a; c may declare b  *)

Excluding(decl, groupId, artifactId) ==
    [decl EXCEPT !.exclusions =
        <<[groupId |-> groupId, artifactId |-> artifactId]>>]

ExclusionFiles ==
    Graphs({<<D("a", "1")>>,
            <<Excluding(D("a", "1"), "g", "c")>>,
            <<Excluding(D("a", "1"), "", "c")>>,
            <<Excluding(D("a", "1"), "g", "")>>,
            <<Excluding(D("a", "1"), "g", "b")>>,
            <<D("c", "2"), Excluding(D("a", "1"), "g", "c")>>},
           {<<D("b", "1"), D("c", "1")>>,
            <<Excluding(D("b", "1"), "g", "c")>>},
           {<<D("c", "2")>>, <<D("c", "2"), D("a", "2")>>},
           {<<>>, <<D("b", "2")>>})

InitExclusions ==
    /\ env = EnvSet
    /\ files \in ExclusionFiles
    /\ InitResolver
    /\ InitOutside

SpecExclusions == InitExclusions /\ [][Next]_vars

\* the descriptor whose declarations the stack frame loops over
FramePath(k) ==
    IF req.stack[k].root THEN PathResolve(req.pomPath)
    ELSE DepPomPath(req.stack[k].dependency)

\* the exclusions written on the declaration, in the descriptor at path, of
\* the identity of the dependency
ExclusionsOn(path, dependency) ==
    UNION {{files[path].project.deps[i].exclusions[n]
            : n \in 1..Len(files[path].project.deps[i].exclusions)}
           : i \in {i \in 1..Len(files[path].project.deps) :
                       /\ Str(files[path].project.deps[i].groupId)
                              = dependency.groupId
                       /\ Str(files[path].project.deps[i].artifactId)
                              = dependency.artifactId}}

\* the exclusion names the coordinate, an absent part or '*' naming any
Excludes(exclusion, dep) ==
    /\ exclusion.groupId \in {"", "*", dep.groupId}
    /\ exclusion.artifactId \in {"", "*", dep.artifactId}

\* the exclusions declared on the dependencies being expanded, from the
\* direct dependency down to the one of frame i
ExclusionsAbove(i) ==
    UNION {ExclusionsOn(FramePath(j - 1), req.stack[j].dependency)
           : j \in 2..i}

\* C23: the coordinates collected from the descriptor of a dependency match
\* none of the exclusions declared on the dependencies above them on the
\* path, at every depth
C23_PathExclusions ==
    \A i \in Active :
        \A n \in 1..Len(req.stack[i].transitiveDeps) :
            \A exclusion \in ExclusionsAbove(i) :
                ~Excludes(exclusion, req.stack[i].transitiveDeps[n])

\* the descriptor of a dependency two levels below the declaration that
\* carries the exclusion declares an excluded artifact, which is not
\* collected
C23_Witness ==
    \E i \in Active :
        /\ i >= 3
        /\ \E k \in 1..Len(files[FramePath(i)].project.deps) :
              /\ \E exclusion \in ExclusionsOn(FramePath(1),
                                                req.stack[2].dependency) :
                     Excludes(exclusion,
                              [groupId |-> "g",
                               artifactId |->
                                   Str(files[FramePath(i)].project.deps[k]
                                           .artifactId)])
              /\ \A n \in 1..Len(req.stack[i].transitiveDeps) :
                     req.stack[i].transitiveDeps[n].artifactId
                         # Str(files[FramePath(i)].project.deps[k].artifactId)

----------------------------------------------------------------------------
(* Properties of the visited set *)

\* the identities of the dependencies being expanded
OnPath == {DepKey(req.stack[i].dependency) : i \in Active}

----------------------------------------------------------------------------
(* Properties of the depth limit *)

\* the maximum depth a call asks for
DepthLimit(options) ==
    IF options.hasMaxDepth THEN options.maxDepth ELSE DefaultMaxDepth

\* every coordinate of the first list is, with its version and depth, in
\* the second
Within(shallow, deep) ==
    \A i \in 1..Len(shallow) :
        \E k \in 1..Len(deep) :
            /\ DepKey(deep[k]) = DepKey(shallow[i])
            /\ deep[k].version = shallow[i].version
            /\ deep[k].depth = shallow[i].depth

\* the call in req and the call before it returned, for the same
\* descriptor, with transitive resolution and the same scopes
SameButDepth ==
    /\ Returned
    /\ last.pc = "returned"
    /\ PathResolve(last.pomPath) = PathResolve(req.pomPath)
    /\ EffectiveOptions(last.options).includeTransitive
    /\ EffectiveOptions(req.options).includeTransitive
    /\ EffectiveOptions(last.options).scopes
          = EffectiveOptions(req.options).scopes

\* C25: of two calls for the same descriptor, the result of the call with
\* the smaller maximum depth is within the result of the other
C25_DepthMonotone ==
    SameButDepth
    => /\ DepthLimit(last.options) <= DepthLimit(req.options)
          => Within(last.result.items, Items)
       /\ DepthLimit(req.options) <= DepthLimit(last.options)
          => Within(Items, last.result.items)

----------------------------------------------------------------------------
(* The resolver on properties defined by placeholders: the project         *)
(* declares g:a with the version ${p}; p is a number, the placeholder of   *)
(* q, which is a number or the placeholder of p, or its own placeholder;   *)
(* a declares b, which declares nothing or declares a                      *)

Defined(name, value) == [name |-> name, value |-> value]

PropertyTables ==
    {<<Defined("p", Lit("1"))>>,
     <<Defined("p", Ref("q")), Defined("q", Lit("1"))>>,
     <<Defined("p", Ref("p"))>>,
     <<Defined("p", Ref("q")), Defined("q", Ref("p"))>>,
     <<Defined("q", Ref("p")), Defined("p", Ref("q"))>>}

PropertyFiles ==
    {FileSystem(
        {<<"/w/app/pom.xml",
           File([Project("app", "1", <<Decl(Lit("g"), Lit("a"), Ref("p"))>>)
                    EXCEPT !.properties = properties])>>}
        \cup {<<RepoPomPath("g", "a", v), File(Project("a", v, <<D("b", "1")>>))>>
              : v \in Versions}
        \cup {<<RepoPomPath("g", "b", v), File(Project("b", v, bDeps))>>
              : v \in Versions})
     : properties \in PropertyTables, bDeps \in {<<>>, <<D("a", "2")>>}}

InitProperties ==
    /\ env = EnvSet
    /\ files \in PropertyFiles
    /\ InitResolver
    /\ InitOutside

SpecProperties == InitProperties /\ [][Next]_vars

\* C26: substitution ends whatever the properties are defined by: a call
\* on a descriptor that can be parsed does not fail and does not go on
\* without end
C26_SubstitutionEnds ==
    req.pomPath # "" /\ Parsable(PathResolve(req.pomPath))
    => req.pc \notin {"thrown", "hung"}

----------------------------------------------------------------------------
(* The resolver on parent references that come back: the project names the *)
(* parent g:base:1 of the repository; base names top, itself or no parent; *)
(* top names base or no parent; the project declares g:a:1, which declares *)
(* b and names itself as parent in some repositories                       *)

ParentCycleFiles ==
    {FileSystem(
        {<<"/w/app/pom.xml",
           File([Project("app", "1", <<D("a", "1")>>)
                    EXCEPT !.parent = Parent("base", "")])>>,
         <<RepoPomPath("g", "base", "1"),
           File([Project("base", "1", <<>>) EXCEPT !.parent = baseParent])>>,
         <<RepoPomPath("g", "top", "1"),
           File([Project("top", "1", <<>>) EXCEPT !.parent = topParent])>>,
         <<RepoPomPath("g", "a", "1"),
           File([Project("a", "1", <<D("b", "1")>>)
                    EXCEPT !.parent = aParent])>>}
        \cup {<<RepoPomPath("g", "b", v), File(Project("b", v, bDeps))>>
              : v \in Versions})
     : baseParent \in {NoParent, Parent("top", ""), Parent("base", "")},
       topParent \in {NoParent, Parent("base", "")},
       aParent \in {NoParent, Parent("a", "")},
       bDeps \in {<<>>, <<D("a", "1")>>}}

InitParentCycle ==
    /\ env = EnvSet
    /\ files \in ParentCycleFiles
    /\ InitResolver
    /\ InitOutside

SpecParentCycle == InitParentCycle /\ [][Next]_vars

\* C27: the resolution of a parent chain ends, also when the parent
\* references form a cycle: no call stays in parseParentPom for ever
C27_ParentChainEnds == req.pc # "hung"

----------------------------------------------------------------------------
(* Properties of the locator and the extractor together *)

\* C28: the archive findJarForClass returns for a class is one from which
\* parseClassFile reads the entry of that class: it can be opened by the
\* extractor and has an entry at the path of the class
C28_LocatorAndExtractorAgree ==
    /\ tool.pc = "done"
    /\ tool.name = "find_class_definition"
    /\ tool.resolved
    /\ FoundJar.found
    => /\ jars[FoundJar.jarPath].adm
       /\ GetEntry(FoundJar.jarPath, ClassPath(tool.args.className)) # "none"

----------------------------------------------------------------------------
(* Properties of the class definition cache *)

\* the answer of findClassDefinition says that the class was not found
AnsweredNotFound ==
    Contains(tool.response.text, " not found in dependencies of ")

\* the answer of findClassDefinition is a definition without source text,
\* methods and fields
AnsweredEmpty ==
    /\ Contains(tool.response.text, "# Class Definition: ")
    /\ ~Contains(tool.response.text, "## Source Code")
    /\ ~Contains(tool.response.text, "## Methods")
    /\ ~Contains(tool.response.text, "## Fields")

\* C29: a findClassDefinition call that answers that the class was not
\* found, or answers with the definition of a decode failure, looked the
\* archives up itself: a lookup that did not succeed is never answered
\* from the class definition cache
C29_FreshAttempt ==
    /\ tool.pc = "done"
    /\ tool.name = "find_class_definition"
    /\ effects.by = "find_class_definition"
    /\ ~tool.response.isError
    /\ AnsweredNotFound \/ AnsweredEmpty
    => "jars" \in effects.touched

----------------------------------------------------------------------------
(* Concurrent requests.  The server runs on one thread: a request runs     *)
(* until it awaits, and then another request may start or go on.  The      *)
(* request that is running is <<req, tool>>; requests holds the requests   *)
(* suspended at an await and the ones that have ended.  The caches of the  *)
(* resolver and of the tools are shared by all of them.                    *)

Context == [req |-> req, tool |-> tool]

\* no call was made in the running context
Fresh == req = Idle /\ tool = NoTool

\* the request awaits: in the resolution, or in a tool on parsePom
Awaiting(c) == c.req.pc = "run" \/ c.tool.pc = "parsing"

\* the running request reaches an await, or has ended, and the event loop
\* turns to something else
Suspend ==
    /\ ~Fresh
    /\ requests' = Append(requests, Context)
    /\ req' = Idle
    /\ tool' = NoTool
    /\ UNCHANGED <<files, cache, pomCache, parses, nextId, calls, last,
                   effects, env, jars, classDefinitionCache,
                   dependenciesCache, pure, manager>>

\* the promise a suspended request awaits is settled: the request goes on
Resume ==
    /\ Fresh
    /\ \E i \in 1..Len(requests) :
           /\ Awaiting(requests[i])
           /\ req' = requests[i].req
           /\ tool' = requests[i].tool
           /\ requests' = SubSeq(requests, 1, i - 1)
                           \o SubSeq(requests, i + 1, Len(requests))
    /\ UNCHANGED <<files, cache, pomCache, parses, nextId, calls, last,
                   effects, env, jars, classDefinitionCache,
                   dependenciesCache, pure, manager>>

ConcurrentJars ==
    FileSystem(
        {<<RepoJarPath("a", ""),
           Jar(TRUE, <<Entry(<<"p", "/", "B">> \o DotClass, "class")>>)>>,
         <<RepoJarPath("b", ""),
           Jar(TRUE, <<Entry(<<"q", "/", "C">> \o DotClass, "class")>>)>>})

InitConcurrent ==
    /\ env = EnvSet
    /\ files \in ToolFiles
    /\ jars = ConcurrentJars
    /\ InitResolver
    /\ last = NoSummary
    /\ effects = Touched("", {})
    /\ tool = NoTool
    /\ classDefinitionCache = <<>>
    /\ dependenciesCache = <<>>
    /\ pure = NoPure
    /\ requests = NoRequests
    /\ manager = NewManager

NextConcurrent ==
    \/ CallFindClassDefinition
    \/ FindClassDefinitionReturn
    \/ CallListProjectDependencies
    \/ ListProjectDependenciesReturn
    \/ ParsePom
    \/ SkipChild
    \/ ExpandChild
    \/ ReturnToCaller
    \/ Finish
    \/ Suspend
    \/ Resume

SpecConcurrent == InitConcurrent /\ [][NextConcurrent]_vars

\* every request: the running one, the suspended ones, the ended ones
AllRequests == {Context} \cup {requests[i] : i \in 1..Len(requests)}

\* parsePom has returned a list to the request
Answered(c) == c.req.pc = "returned"

\* the key of the resolver's cache the request uses
KeyOf(r) == CacheKey(r.pomPath, r.options)

\* the tool of the request has answered from a list of dependencies
Listed(c) ==
    /\ c.tool.pc = "done"
    /\ c.tool.name = "list_project_dependencies"
    /\ ~c.tool.response.isError

DefinitionGiven(c) ==
    /\ c.tool.pc = "done"
    /\ c.tool.name = "find_class_definition"
    /\ ~c.tool.response.isError

\* what a request was given is what the cache holds for its key, and no
\* list stored earlier than the one a request built is left in the cache
WholeResults ==
    \A c \in AllRequests :
        /\ Answered(c) =>
               /\ KeyOf(c.req) \in DOMAIN cache
               /\ c.req.result.items = cache[KeyOf(c.req)].items
               /\ c.req.result.id <= cache[KeyOf(c.req)].id
        /\ Listed(c) =>
               /\ CacheKey(c.tool.args.pomPath, ToolOptions) \in DOMAIN cache
               /\ c.tool.response = FormatDependenciesResponse(
                      cache[CacheKey(c.tool.args.pomPath, ToolOptions)].items)
               /\ \E held \in {LruGet(dependenciesCache,
                                       DependenciesKey(c.tool.args))} :
                      /\ held.hit
                      /\ c.tool.response =
                             FormatDependenciesResponse(held.value.items)
        /\ DefinitionGiven(c) =>
               \E held \in {LruGet(classDefinitionCache,
                                   ClassKey(c.tool.args))} :
                   IF held.hit
                   THEN c.tool.response =
                            FormatClassDefinitionResponse(
                                c.tool.args.className, held.value)
                   ELSE c.tool.response =
                            NotFoundResponse(c.tool.args.className,
                                             c.tool.args.pomPath)

\* the entry of a key in a cache of the tools, <<>> when it has none
EntryOf(c, key) ==
    IF LruGet(c, key).hit THEN <<LruGet(c, key).value>> ELSE <<>>

KeysOf(c) == {c[i].key : i \in 1..Len(c)}

\* a step of the running request: what it stores is the entry of its key
\* afterwards, and the entries of the other keys are as they were
OwnKeyOnly ==
    requests' = requests =>
        /\ req'.pc = "returned" /\ req' # req =>
               /\ KeyOf(req') \in DOMAIN cache'
               /\ cache'[KeyOf(req')] = req'.result
        /\ DOMAIN cache \subseteq DOMAIN cache'
        /\ \A key \in DOMAIN cache' \ {KeyOf(req')} :
               key \in DOMAIN cache /\ cache'[key] = cache[key]
        /\ \A key \in (KeysOf(dependenciesCache)
                        \cup KeysOf(dependenciesCache'))
                       \ {DependenciesKey(tool'.args)} :
               EntryOf(dependenciesCache', key) = EntryOf(dependenciesCache, key)
        /\ \A key \in (KeysOf(classDefinitionCache)
                        \cup KeysOf(classDefinitionCache'))
                       \ {ClassKey(tool'.args)} :
               EntryOf(classDefinitionCache', key)
                   = EntryOf(classDefinitionCache, key)

----------------------------------------------------------------------------
(* The extension: MCPClientManager.  manager.clients is the client map,    *)
(* manager.processes the server processes in the order they were spawned,  *)
(* each [folder, state].  A createClient call is suspended twice: on the    *)
(* installation of the server's dependencies and on the registration of    *)
(* the server; a disposeClient call once, on the unregistration.  The       *)
(* timer disposeClient starts finds process.killed set by the kill before  *)
(* it and does nothing.                                                    *)

Process(folder, state) == [folder |-> folder, state |-> state]

\* the processes of a folder that run and were sent no signal
Serving(folder) ==
    {p \in 1..Len(manager.processes) :
        manager.processes[p] = Process(folder, "running")}

\* client.process.kill('SIGTERM') unless client.process.killed
Killed(processes, p) ==
    IF processes[p].state = "running"
    THEN [processes EXCEPT ![p].state = "signalled"]
    ELSE processes

\* createClient(workspaceFolder) up to its first await
CreateClient(folder) ==
    /\ manager.invoked < MaxCreates
    /\ manager' =
           IF manager.clients[folder] # NoProcess
           THEN [manager EXCEPT !.invoked = @ + 1]
           ELSE [manager EXCEPT !.invoked = @ + 1,
                                !.creating[folder].installing = @ + 1]
    /\ UNCHANGED <<files, cache, pomCache, parses, nextId, calls, req, last,
                   effects, env, jars, tool, classDefinitionCache,
                   dependenciesCache, pure, requests>>

\* ensureMCPServerDependencies is settled: createClient goes on to the
\* registration, or ends when the installation failed or no server is found
DependenciesEnsured(folder) ==
    /\ manager.creating[folder].installing > 0
    /\ \E found \in BOOLEAN :
           manager' =
               IF found
               THEN [manager EXCEPT
                        !.creating[folder].installing = @ - 1,
                        !.creating[folder].registering = @ + 1]
               ELSE [manager EXCEPT !.creating[folder].installing = @ - 1]
    /\ UNCHANGED <<files, cache, pomCache, parses, nextId, calls, req, last,
                   effects, env, jars, tool, classDefinitionCache,
                   dependenciesCache, pure, requests>>

\* registerMCPServer is settled: the process is spawned, its handlers are
\* attached and the client is stored
ServerRegistered(folder) ==
    /\ manager.creating[folder].registering > 0
    /\ manager' =
           [manager EXCEPT
               !.creating[folder].registering = @ - 1,
               !.processes = Append(@, Process(folder, "running")),
               !.clients[folder] = Len(manager.processes) + 1]
    /\ UNCHANGED <<files, cache, pomCache, parses, nextId, calls, req, last,
                   effects, env, jars, tool, classDefinitionCache,
                   dependenciesCache, pure, requests>>

\* mcpProcess.on('exit', ...) and mcpProcess.on('error', ...)
OnEvent(p, state) ==
    manager' =
        [manager EXCEPT !.processes[p].state = state,
                        !.clients[manager.processes[p].folder] = NoProcess]

\* a server process exits, of itself or after a signal
ProcessExit ==
    /\ \E p \in 1..Len(manager.processes) :
           /\ manager.processes[p].state \in {"running", "signalled"}
           /\ OnEvent(p, "exited")
    /\ UNCHANGED <<files, cache, pomCache, parses, nextId, calls, req, last,
                   effects, env, jars, tool, classDefinitionCache,
                   dependenciesCache, pure, requests>>

\* spawn reports that the process could not be started
ProcessError ==
    /\ \E p \in 1..Len(manager.processes) :
           /\ manager.processes[p].state = "running"
           /\ OnEvent(p, "failed")
    /\ UNCHANGED <<files, cache, pomCache, parses, nextId, calls, req, last,
                   effects, env, jars, tool, classDefinitionCache,
                   dependenciesCache, pure, requests>>

\* disposeClient(workspaceFolder) up to its await
DisposeClient(folder) ==
    /\ manager' =
           IF manager.clients[folder] # NoProcess
           THEN [manager EXCEPT
                    !.disposing = @ \cup {[folder |-> folder,
                                           process |-> manager.clients[folder]]}]
           ELSE manager
    /\ UNCHANGED <<files, cache, pomCache, parses, nextId, calls, req, last,
                   effects, env, jars, tool, classDefinitionCache,
                   dependenciesCache, pure, requests>>

\* unregisterMCPServer is settled: the process of the client is killed and
\* the entry of the folder deleted
ServerUnregistered ==
    /\ \E d \in manager.disposing :
           manager' =
               [manager EXCEPT
                   !.disposing = @ \ {d},
                   !.processes = Killed(@, d.process),
                   !.clients[d.folder] = NoProcess]
    /\ UNCHANGED <<files, cache, pomCache, parses, nextId, calls, req, last,
                   effects, env, jars, tool, classDefinitionCache,
                   dependenciesCache, pure, requests>>

RECURSIVE KilledAll(_, _)
KilledAll(processes, ps) ==
    IF ps = {} THEN processes
    ELSE The({KilledAll(Killed(processes, p), ps \ {p})
              : p \in {CHOOSE p \in ps : TRUE}})

\* dispose(): the process of every client in the map is killed and the map
\* cleared
Dispose ==
    /\ manager' =
           [manager EXCEPT
               !.processes =
                   KilledAll(@, {manager.clients[f] : f \in Folders}
                                \ {NoProcess}),
               !.clients = [f \in Folders |-> NoProcess]]
    /\ UNCHANGED <<files, cache, pomCache, parses, nextId, calls, req, last,
                   effects, env, jars, tool, classDefinitionCache,
                   dependenciesCache, pure, requests>>

InitManager ==
    /\ env = EnvSet
    /\ files = <<>>
    /\ InitResolver
    /\ InitOutside

NextManager ==
    \/ \E folder \in Folders : CreateClient(folder)
    \/ \E folder \in Folders : DependenciesEnsured(folder)
    \/ \E folder \in Folders : ServerRegistered(folder)
    \/ ProcessExit
    \/ ProcessError
    \/ \E folder \in Folders : DisposeClient(folder)
    \/ ServerUnregistered
    \/ Dispose

SpecManager == InitManager /\ [][NextManager]_vars

\* C22: a workspace folder has at most one server process that runs
C22_OnePerFolder == \A folder \in Folders : Cardinality(Serving(folder)) <= 1

\* the processes whose exit or error event is handled in the step
Ending ==
    {p \in 1..Len(manager.processes) :
        /\ manager.processes[p].state \in {"running", "signalled"}
        /\ manager'.processes[p].state \in {"exited", "failed"}}

\* C30: the exit or error event of a process removes from the client map
\* only the entry that refers to that process
C30_OwnEntryOnly ==
    [][\A p \in Ending :
           \A folder \in Folders :
               manager'.clients[folder] # manager.clients[folder]
                   => manager.clients[folder] = p]_vars

====
